---- MODULE Spec2Model ----
(***************************************************************************)
(* A model of sim (src/main.go): a tool that manages the programs          *)
(* (symlinks, copies, moved files) of one directory, $XDG_BIN_HOME.        *)
(*                                                                         *)
(* Strings are sequences of one-character strings, so that the path        *)
(* functions of the Go library (Clean, Join, Base, Ext, Rel, Abs) and the  *)
(* prefix tests of the program are computed, not assumed.  The file system *)
(* is a function from clean absolute paths to nodes, and the system calls  *)
(* the program makes (stat, lstat, readlink, symlink, rename, unlink,      *)
(* readdir) and the two utilities it runs (cp, cmp) are operators on it.   *)
(***************************************************************************)
EXTENDS Integers, Sequences, FiniteSets, TLC

(***************************************************************************)
(* Strings and the path/filepath functions (Unix).                         *)
(***************************************************************************)
Slash == <<"/">>
Dot == <<".">>
DotDot == <<".", ".">>
Empty == <<>>

HasPrefix(s, p) == Len(s) >= Len(p) /\ SubSeq(s, 1, Len(p)) = p

HasSuffix(s, p) == Len(s) >= Len(p) /\ SubSeq(s, Len(s) - Len(p) + 1, Len(s)) = p

TrimSuffix(s, p) == IF HasSuffix(s, p) THEN SubSeq(s, 1, Len(s) - Len(p)) ELSE s

\* strings.Split(s, "/"): the components between the slashes, empty ones kept.
RECURSIVE Split(_)
Split(s) ==
    IF s = <<>> THEN << <<>> >>
    ELSE LET r == Split(Tail(s))
         IN  IF Head(s) = "/" THEN << <<>> >> \o r
             ELSE << <<Head(s)>> \o Head(r) >> \o Tail(r)

\* strings.Join(comps, "/")
RECURSIVE JoinSlash(_)
JoinSlash(comps) ==
    IF comps = <<>> THEN <<>>
    ELSE IF Len(comps) = 1 THEN comps[1]
    ELSE comps[1] \o Slash \o JoinSlash(Tail(comps))

IsAbs(p) == HasPrefix(p, Slash)

\* The element stack of filepath.Clean: "." and empty elements are dropped,
\* ".." removes the element before it, or is kept in front of a relative path.
RECURSIVE CleanStack(_, _, _)
CleanStack(comps, out, rooted) ==
    IF comps = <<>> THEN out
    ELSE LET c == Head(comps)
             rest == Tail(comps)
         IN  IF c = Empty \/ c = Dot THEN CleanStack(rest, out, rooted)
             ELSE IF c = DotDot
                  THEN IF out # <<>> /\ out[Len(out)] # DotDot
                       THEN CleanStack(rest, SubSeq(out, 1, Len(out) - 1), rooted)
                       ELSE IF rooted THEN CleanStack(rest, out, rooted)
                       ELSE CleanStack(rest, Append(out, c), rooted)
             ELSE CleanStack(rest, Append(out, c), rooted)

Clean(p) ==
    IF p = Empty THEN Dot
    ELSE LET out == JoinSlash(CleanStack(Split(p), <<>>, IsAbs(p)))
         IN  IF IsAbs(p) THEN Slash \o out
             ELSE IF out = Empty THEN Dot ELSE out

\* filepath.Join of two elements: empty elements are ignored, the rest is
\* joined with a slash and cleaned.
Join(a, b) ==
    IF a = Empty /\ b = Empty THEN Empty
    ELSE IF a = Empty THEN Clean(b)
    ELSE IF b = Empty THEN Clean(a)
    ELSE Clean(a \o Slash \o b)

RECURSIVE StripEmptyTail(_)
StripEmptyTail(comps) ==
    IF comps # <<>> /\ comps[Len(comps)] = Empty
    THEN StripEmptyTail(SubSeq(comps, 1, Len(comps) - 1))
    ELSE comps

\* filepath.Base: the last element, trailing slashes removed.
Base(p) ==
    IF p = Empty THEN Dot
    ELSE LET comps == StripEmptyTail(Split(p))
         IN  IF comps = <<>> THEN Slash ELSE comps[Len(comps)]

\* filepath.Ext: the suffix from the last dot of the last element.
RECURSIVE ExtFrom(_, _)
ExtFrom(p, i) ==
    IF i = 0 \/ p[i] = "/" THEN Empty
    ELSE IF p[i] = "." THEN SubSeq(p, i, Len(p))
    ELSE ExtFrom(p, i - 1)

Ext(p) == ExtFrom(p, Len(p))

\* The elements of a clean path; the root has the single element "".
CleanComps(p) == IF p = Slash THEN << Empty >> ELSE Split(p)

RECURSIVE CommonLen(_, _)
CommonLen(a, b) ==
    IF a = <<>> \/ b = <<>> \/ Head(a) # Head(b) THEN 0
    ELSE 1 + CommonLen(Tail(a), Tail(b))

\* filepath.Rel: [ok, path], a path that joined to base gives targ.
Rel(basepath, targpath) ==
    LET base == Clean(basepath)
        targ == Clean(targpath)
        bc == IF base = Dot THEN <<>> ELSE CleanComps(base)
        tc == IF targ = Dot THEN <<>> ELSE CleanComps(targ)
        n == CommonLen(bc, tc)
        remB == SubSeq(bc, n + 1, Len(bc))
        remT == SubSeq(tc, n + 1, Len(tc))
    IN  IF targ = base THEN [ok |-> TRUE, path |-> Dot]
        ELSE IF IsAbs(base) # IsAbs(targ) THEN [ok |-> FALSE, path |-> Empty]
        ELSE IF remB # <<>> /\ remB[1] = DotDot THEN [ok |-> FALSE, path |-> Empty]
        ELSE [ok |-> TRUE,
              path |-> JoinSlash([i \in 1..Len(remB) |-> DotDot] \o remT)]

\* filepath.Abs, with the working directory wd of the process.
Abs(wd, p) == IF IsAbs(p) THEN Clean(p) ELSE Join(wd, p)

ensureAbs(base, relOrAbs) ==
    IF IsAbs(relOrAbs) THEN relOrAbs ELSE Join(base, relOrAbs)

(***************************************************************************)
(* The file system: a function from the clean absolute paths that exist to *)
(* their nodes.  Permission bits are sets of bit values.                   *)
(***************************************************************************)
ExecBits == {64, 8, 1}      \* 0o111

AllBits == {256, 128, 64, 32, 16, 8, 4, 2, 1}      \* 0o777

\* The number of symbolic links one path resolution follows before ELOOP.
MaxSymlinks == 4

DirNode == [kind |-> "dir", data |-> <<>>, perm |-> AllBits, text |-> <<>>]

FileNode(data, perm) == [kind |-> "file", data |-> data, perm |-> perm, text |-> <<>>]

LinkNode(text) == [kind |-> "link", data |-> <<>>, perm |-> AllBits, text |-> text]

NoNode == [kind |-> "none", data |-> <<>>, perm |-> {}, text |-> <<>>]

Parent(p) == Clean(p \o Slash \o DotDot)

Child(d, name) == IF d = Slash THEN Slash \o name ELSE d \o Slash \o name

Children(f, d) == {p \in DOMAIN f : p # d /\ Parent(p) = d}

\* Path resolution of the kernel: cur is the directory reached so far, todo
\* the elements left.  A link is followed when elements remain after it or
\* when follow is set; anything that has elements after it must be a
\* directory.
RECURSIVE Walk(_, _, _, _, _)
Walk(f, cur, todo, follow, fuel) ==
    IF todo = <<>> THEN [err |-> "ok", path |-> cur]
    ELSE LET c == Head(todo)
             rest == Tail(todo)
             p == Child(cur, c)
         IN  IF c = Empty \/ c = Dot THEN Walk(f, cur, rest, follow, fuel)
             ELSE IF c = DotDot THEN Walk(f, Parent(cur), rest, follow, fuel)
             ELSE IF p \notin DOMAIN f THEN [err |-> "ENOENT", path |-> p]
             ELSE IF f[p].kind = "link" /\ (rest # <<>> \/ follow)
                  THEN IF fuel = 0 THEN [err |-> "ELOOP", path |-> p]
                       ELSE Walk(f, IF IsAbs(f[p].text) THEN Slash ELSE cur,
                                 Split(f[p].text) \o rest, follow, fuel - 1)
             ELSE IF rest # <<>> /\ f[p].kind # "dir"
                  THEN [err |-> "ENOTDIR", path |-> p]
             ELSE Walk(f, p, rest, follow, fuel)

Resolve(f, wd, path, follow) ==
    IF path = Empty THEN [err |-> "ENOENT", path |-> Empty]
    ELSE Walk(f, IF IsAbs(path) THEN Slash ELSE wd, Split(path), follow, MaxSymlinks)

\* os.Stat and os.Lstat: [err, path, node]; path is where the node lives.
StatOf(f, r) ==
    [err |-> r.err, path |-> r.path, node |-> IF r.err = "ok" THEN f[r.path] ELSE NoNode]

Stat(f, wd, path) == StatOf(f, Resolve(f, wd, path, TRUE))

Lstat(f, wd, path) == StatOf(f, Resolve(f, wd, path, FALSE))

\* errors.Is(err, fs.ErrNotExist) and errors.Is(err, fs.ErrExist)
IsNotExist(err) == err = "ENOENT"

IsExist(err) == err \in {"EEXIST", "ENOTEMPTY"}

\* fs.FileInfo.Mode(): the type bits and the permission bits.
Mode(node) == [type |-> node.kind, perm |-> node.perm]

\* fs.FileInfo.Size(): meaningful for files and links.
Size(node) == IF node.kind = "file" THEN Len(node.data)
              ELSE IF node.kind = "link" THEN Len(node.text)
              ELSE 0

isSymlink(mode) == mode.type = "link"

isExecutable(mode) == mode.perm \cap ExecBits # {}

Without(f, p) == [q \in DOMAIN f \ {p} |-> f[q]]

With(f, p, node) == [q \in DOMAIN f \cup {p} |-> IF q = p THEN node ELSE f[q]]

\* Where a new directory entry for a path would be made, given the lstat l of
\* the path, the stat d of its parent and its last element: the parent is
\* resolved through links, the last element is not.
SlotOf(l, d, last) ==
    IF l.err = "ok" THEN [err |-> "EEXIST", path |-> l.path]
    ELSE IF l.err # "ENOENT" THEN [err |-> l.err, path |-> Empty]
    ELSE IF last \in {Dot, DotDot, Slash} THEN [err |-> "ENOENT", path |-> Empty]
    ELSE IF d.err # "ok" THEN [err |-> d.err, path |-> Empty]
    ELSE IF d.node.kind # "dir" THEN [err |-> "ENOTDIR", path |-> Empty]
    ELSE [err |-> "ok", path |-> Child(d.path, last)]

Slot(f, wd, path) ==
    SlotOf(Lstat(f, wd, path), Stat(f, wd, Parent(Abs(wd, path))), Base(Clean(path)))

\* os.Remove: unlink, or rmdir of an empty directory.  [err, fs]
RemoveAt(f, l) ==
    IF l.err # "ok" THEN [err |-> l.err, fs |-> f]
    ELSE IF l.path = Slash THEN [err |-> "EBUSY", fs |-> f]
    ELSE IF l.node.kind = "dir" /\ Children(f, l.path) # {}
         THEN [err |-> "ENOTEMPTY", fs |-> f]
    ELSE [err |-> "ok", fs |-> Without(f, l.path)]

Remove(f, wd, path) == RemoveAt(f, Lstat(f, wd, path))

\* os.Symlink(text, path).  [err, fs]
SymlinkAt(f, text, s) ==
    IF s.err # "ok" THEN [err |-> s.err, fs |-> f]
    ELSE [err |-> "ok", fs |-> With(f, s.path, LinkNode(text))]

SymlinkCall(f, wd, text, path) == SymlinkAt(f, text, Slot(f, wd, path))

\* os.Readlink.  [err, text]
ReadlinkOf(l) ==
    IF l.err # "ok" THEN [err |-> l.err, text |-> Empty]
    ELSE IF l.node.kind # "link" THEN [err |-> "EINVAL", text |-> Empty]
    ELSE [err |-> "ok", text |-> l.node.text]

Readlink(f, wd, path) == ReadlinkOf(Lstat(f, wd, path))

\* os.Rename(old, new) of a file or a link, o the lstat of old and s the slot
\* of new: new is replaced unless it is a directory; nothing happens if old
\* and new are the same entry.  [err, fs]
RenameAt(f, o, s) ==
    IF o.err # "ok" THEN [err |-> o.err, fs |-> f]
    ELSE IF s.err \notin {"ok", "EEXIST"} THEN [err |-> s.err, fs |-> f]
    ELSE IF s.path = o.path THEN [err |-> "ok", fs |-> f]
    ELSE IF o.node.kind = "dir" THEN [err |-> "EXDEV", fs |-> f]
    ELSE IF s.err = "EEXIST" /\ f[s.path].kind = "dir" THEN [err |-> "EISDIR", fs |-> f]
    ELSE [err |-> "ok", fs |-> With(Without(f, o.path), s.path, o.node)]

Rename(f, wd, old, new) == RenameAt(f, Lstat(f, wd, old), Slot(f, wd, new))

\* os.ReadDir: the names in the directory, sorted by name, with their
\* types.  [err, files]
CharCode(c) ==
    CASE c = "." -> 46
      [] c = "/" -> 47
      [] c = "a" -> 97
      [] c = "b" -> 98
      [] c = "c" -> 99
      [] c = "d" -> 100
      [] c = "f" -> 102
      [] c = "g" -> 103
      [] c = "h" -> 104
      [] c = "s" -> 115
      [] c = "u" -> 117
      [] c = "x" -> 120
      [] OTHER -> 122

RECURSIVE StrLess(_, _)
StrLess(a, b) ==
    IF b = <<>> THEN FALSE
    ELSE IF a = <<>> THEN TRUE
    ELSE IF Head(a) # Head(b) THEN CharCode(Head(a)) < CharCode(Head(b))
    ELSE StrLess(Tail(a), Tail(b))

Least(S) == CHOOSE x \in S : \A y \in S \ {x} : StrLess(x, y)

RECURSIVE SortedSeq(_)
SortedSeq(S) ==
    IF S = {} THEN <<>> ELSE << Least(S) >> \o SortedSeq(S \ {Least(S)})

DirEntry(f, p) == [name |-> Base(p), type |-> f[p].kind]

Entries(f, dir, names) ==
    [i \in 1..Len(names) |-> DirEntry(f, Child(dir, names[i]))]

ReadDirOf(f, d) ==
    IF d.err # "ok" THEN [err |-> d.err, files |-> <<>>]
    ELSE IF d.node.kind # "dir" THEN [err |-> "ENOTDIR", files |-> <<>>]
    ELSE [err |-> "ok",
          files |-> Entries(f, d.path, SortedSeq({Base(p) : p \in Children(f, d.path)}))]

ReadDir(f, wd, dir) == ReadDirOf(f, Stat(f, wd, dir))

\* cp src dst, as the program runs it (dst does not exist), s the stat of
\* src and d the slot of dst: the file src resolves to is copied; the new
\* file gets the source's permission bits less the umask.  [ok, fs]
CpAt(f, umask, s, d) ==
    IF s.err # "ok" \/ s.node.kind # "file" THEN [ok |-> FALSE, fs |-> f]
    ELSE IF d.err = "ok"
         THEN [ok |-> TRUE,
               fs |-> With(f, d.path, FileNode(s.node.data, s.node.perm \ umask))]
    ELSE [ok |-> FALSE, fs |-> f]

Cp(f, wd, umask, src, dst) == CpAt(f, umask, Stat(f, wd, src), Slot(f, wd, dst))

\* cmp -s a b, x and y the stats of a and b: the exit status, 0 same,
\* 1 different, 2 trouble.
CmpOf(x, y) ==
    IF x.err # "ok" \/ y.err # "ok" \/ x.node.kind # "file" \/ y.node.kind # "file"
    THEN 2
    ELSE IF x.node.data = y.node.data THEN 0 ELSE 1

Cmp(f, wd, a, b) == CmpOf(Stat(f, wd, a), Stat(f, wd, b))

(***************************************************************************)
(* The program.  A world w is what one process has done so far: the file   *)
(* system, command.failed, command.binDir, the errors written to stderr,   *)
(* the lines written to stdout, and whether it has called os.Exit.  The    *)
(* environment e of the process is its working directory, umask,           *)
(* $XDG_BIN_HOME and $HOME.                                                *)
(***************************************************************************)
DotLocal == <<".", "l">>

BinName == <<"b">>

\* A command.error that writes the message and leaves command.failed alone.
ErrorUnflagged(w, kind, what) == [w EXCEPT !.errs = Append(@, <<kind, what>>)]

\* command.error
Error(w, kind, what) ==
    [w EXCEPT !.errs = Append(@, <<kind, what>>), !.failed = TRUE]

\* command.fatal
Fatal(w, kind, what) == [Error(w, kind, what) EXCEPT !.exited = TRUE]

Output(w, line) == [w EXCEPT !.out = Append(@, line)]

SetFs(w, f) == [w EXCEPT !.fs = f]

\* A bin that takes XDG_BIN_HOME as it is.
binUnchecked(w, e) ==
    IF w.binDir # Empty THEN w
    ELSE IF e.xdg = Empty
         THEN IF e.home = Empty THEN Fatal(w, "home", Empty)
              ELSE [w EXCEPT !.binDir = Join(Join(e.home, DotLocal), BinName)]
    ELSE [w EXCEPT !.binDir = e.xdg]

\* command.bin: the world after the call; the directory is w.binDir.
bin(w, e) ==
    IF w.binDir # Empty THEN w
    ELSE IF e.xdg = Empty
         THEN IF e.home = Empty THEN Fatal(w, "home", Empty)
              ELSE [w EXCEPT !.binDir = Join(Join(e.home, DotLocal), BinName)]
    ELSE IF ~IsAbs(e.xdg) THEN Fatal([w EXCEPT !.binDir = e.xdg], "not absolute", e.xdg)
    ELSE [w EXCEPT !.binDir = e.xdg]

NoCommand == [arg |-> Empty, name |-> Empty, path |-> Empty, absTarget |-> Empty,
              targetStat |-> NoNode]

\* The name newInstallCommand gives the program.
installName(absTarget, noExt, rename) ==
    IF rename # Empty THEN rename
    ELSE IF noExt THEN TrimSuffix(Base(absTarget), Ext(Base(absTarget)))
    ELSE Base(absTarget)

Rejected(w) == [w |-> w, ok |-> FALSE, c |-> NoCommand]

\* A newInstallCommand that looks at the name before it looks at the kind of
\* the file.
newInstallCommandNameFirst(w, e, arg, name, st, wb) ==
    IF IsNotExist(st.err) THEN Rejected(Error(w, "file not found", arg))
    ELSE IF st.err # "ok" THEN Rejected(Error(w, st.err, arg))
    ELSE IF HasPrefix(Base(arg), Dot) THEN Rejected(Error(w, "must not start with '.'", arg))
    ELSE IF st.node.kind = "dir" THEN Rejected(Error(w, "is a directory", arg))
    ELSE IF ~isExecutable(Mode(st.node)) THEN Rejected(Error(w, "not an executable", arg))
    ELSE IF wb.exited THEN Rejected(wb)
    ELSE [w |-> wb, ok |-> TRUE,
          c |-> [arg |-> arg, name |-> name, path |-> Join(wb.binDir, name),
                 absTarget |-> Abs(e.wd, arg), targetStat |-> st.node]]

\* newInstallCommand, st the result of os.Stat(arg) and wb the world after
\* c.bin(): [w, ok, c]
newInstallCommandOn(w, e, arg, name, st, wb) ==
    IF IsNotExist(st.err) THEN Rejected(Error(w, "file not found", arg))
    ELSE IF st.err # "ok" THEN Rejected(Error(w, st.err, arg))
    ELSE IF st.node.kind = "dir" THEN Rejected(Error(w, "is a directory", arg))
    ELSE IF HasPrefix(Base(arg), Dot) THEN Rejected(Error(w, "must not start with '.'", arg))
    ELSE IF ~isExecutable(Mode(st.node)) THEN Rejected(Error(w, "not an executable", arg))
    ELSE IF wb.exited THEN Rejected(wb)
    ELSE [w |-> wb, ok |-> TRUE,
          c |-> [arg |-> arg, name |-> name, path |-> Join(wb.binDir, name),
                 absTarget |-> Abs(e.wd, arg), targetStat |-> st.node]]

newInstallCommand(w, e, arg, noExt, rename) ==
    newInstallCommandOn(w, e, arg, installName(Abs(e.wd, arg), noExt, rename),
                        Stat(w.fs, e.wd, arg), bin(w, e))

Line(verb, c, note) ==
    [verb |-> verb, name |-> c.name, target |-> c.absTarget, note |-> note]

AlreadyInstalled == "(already installed)"

\* installCommand.sameFileContent, status the exit status of cmp: [w, same]
sameFileContentOn(w, c, existingInfo, status) ==
    IF Size(existingInfo) # Size(c.targetStat) THEN [w |-> w, same |-> FALSE]
    ELSE IF Mode(existingInfo) # Mode(c.targetStat) THEN [w |-> w, same |-> FALSE]
    ELSE IF status = 0 THEN [w |-> w, same |-> TRUE]
    ELSE IF status = 1 THEN [w |-> w, same |-> FALSE]
    ELSE [w |-> Error(w, "running cmp", c.arg), same |-> FALSE]

sameFileContent(w, e, c, existingInfo) ==
    sameFileContentOn(w, c, existingInfo, Cmp(w.fs, e.wd, c.path, c.absTarget))

\* installCommand.copy when the destination exists
copyExisting(c, same) ==
    IF same.same THEN Output(same.w, Line("Copying", c, AlreadyInstalled))
    ELSE Error(Output(same.w, Line("Copying", c, "")), "exists", c.arg)

\* installCommand.copy when the destination does not exist, cp the result
\* of running cp
copyNew(w, c, cp) ==
    IF cp.ok THEN SetFs(Output(w, Line("Copying", c, "")), cp.fs)
    ELSE Error(SetFs(Output(w, Line("Copying", c, "")), cp.fs), "copying file", c.arg)

\* installCommand.copy, info the result of os.Lstat(c.path)
copyOn(w, e, c, info) ==
    IF info.err # "ok" /\ ~IsNotExist(info.err)
    THEN Error(Output(w, Line("Copying", c, "")), info.err, c.arg)
    ELSE IF info.err = "ok" THEN copyExisting(c, sameFileContent(w, e, c, info.node))
    ELSE copyNew(w, c, Cp(w.fs, e.wd, e.umask, c.absTarget, c.path))

copy(w, e, c) == copyOn(w, e, c, Lstat(w.fs, e.wd, c.path))

\* The end of installCommand.move, r the result of os.Rename
moveRenamed(w, c, r) ==
    IF r.err = "ok" THEN SetFs(w, r.fs) ELSE Error(SetFs(w, r.fs), "moving file", c.arg)

moveRename(w, e, c) == moveRenamed(w, c, Rename(w.fs, e.wd, c.absTarget, c.path))

\* A move that leaves the source where it is when the destination already
\* holds the same content.
moveExistingInPlace(e, c, same) ==
    IF ~same.same THEN Error(Output(same.w, Line("Moving", c, "")), "exists", c.arg)
    ELSE Output(same.w, Line("Moving", c, AlreadyInstalled))

\* installCommand.move when the destination exists
moveExisting(e, c, same) ==
    IF ~same.same THEN Error(Output(same.w, Line("Moving", c, "")), "exists", c.arg)
    ELSE moveRename(Output(same.w, Line("Moving", c, AlreadyInstalled)), e, c)

\* installCommand.move when the destination does not exist, src the
\* result of os.Lstat(c.absTarget)
moveNew(w, e, c, src) ==
    IF src.err # "ok" THEN Error(Output(w, Line("Moving", c, "")), src.err, c.arg)
    ELSE IF isSymlink(Mode(src.node))
         THEN Error(Output(w, Line("Moving", c, "")), "cannot install symlinks", c.arg)
    ELSE moveRename(Output(w, Line("Moving", c, "")), e, c)

\* installCommand.move, info the result of os.Lstat(c.path)
moveOn(w, e, c, info) ==
    IF info.err # "ok" /\ ~IsNotExist(info.err)
    THEN Error(Output(w, Line("Moving", c, "")), info.err, c.arg)
    ELSE IF info.err = "ok" THEN moveExisting(e, c, sameFileContent(w, e, c, info.node))
    ELSE moveNew(w, e, c, Lstat(w.fs, e.wd, c.absTarget))

move(w, e, c) == moveOn(w, e, c, Lstat(w.fs, e.wd, c.path))

\* A symlink that takes any symlink at the destination for its own.
symlinkExistingAnyLink(w, c, relTarget, info, existing) ==
    IF info.err # "ok" THEN Error(Output(w, Line("Symlinking", c, "")), info.err, c.arg)
    ELSE IF isSymlink(Mode(info.node)) /\ existing.err # "ok"
         THEN Error(Output(w, Line("Symlinking", c, "")), existing.err, c.arg)
    ELSE IF isSymlink(Mode(info.node))
         THEN Output(w, Line("Symlinking", c, AlreadyInstalled))
    ELSE Error(Output(w, Line("Symlinking", c, "")), "exists", c.arg)

\* installCommand.symlink after os.Symlink said the destination exists,
\* info the result of os.Lstat(c.path), existing of os.Readlink(c.path)
symlinkExisting(w, c, relTarget, info, existing) ==
    IF info.err # "ok" THEN Error(Output(w, Line("Symlinking", c, "")), info.err, c.arg)
    ELSE IF isSymlink(Mode(info.node)) /\ existing.err # "ok"
         THEN Error(Output(w, Line("Symlinking", c, "")), existing.err, c.arg)
    ELSE IF isSymlink(Mode(info.node)) /\ relTarget = existing.text
         THEN Output(w, Line("Symlinking", c, AlreadyInstalled))
    ELSE Error(Output(w, Line("Symlinking", c, "")), "exists", c.arg)

\* installCommand.symlink from os.Symlink on, made its result
symlinkMade(w, e, c, relTarget, made) ==
    IF made.err = "ok" THEN SetFs(Output(w, Line("Symlinking", c, "")), made.fs)
    ELSE IF ~IsExist(made.err)
         THEN Error(Output(w, Line("Symlinking", c, "")), made.err, c.arg)
    ELSE symlinkExisting(w, c, relTarget, Lstat(w.fs, e.wd, c.path),
                         Readlink(w.fs, e.wd, c.path))

\* installCommand.symlink, rel the result of filepath.Rel
symlinkOn(w, e, c, rel) ==
    IF w.exited THEN w
    ELSE IF ~rel.ok THEN Error(w, "rel", c.arg)
    ELSE symlinkMade(w, e, c, rel.path, SymlinkCall(w.fs, e.wd, rel.path, c.path))

\* A symlink that makes the link text relative to the working directory.
symlinkInCwd(w, e, c) == symlinkOn(w, e, c, Rel(e.wd, c.absTarget))

symlinkIn(w, e, c) == symlinkOn(w, e, c, Rel(w.binDir, c.absTarget))

symlink(w, e, c) == symlinkIn(bin(w, e), e, c)

\* The body of the loop of command.install after newInstallCommand
place(w, e, c, isCopy, isMove) ==
    IF isCopy THEN copy(w, e, c)
    ELSE IF isMove THEN move(w, e, c)
    ELSE symlink(w, e, c)

\* A force that removes nothing.
forceRemoveNothing(w, e, c, force) == w

\* if force { os.Remove(cmd.path) }
forceRemove(w, e, c, force) ==
    IF force THEN SetFs(w, Remove(w.fs, e.wd, c.path).fs) ELSE w

\* A loop body that places nothing once an error has been recorded.
installArgStopping(n, e, force, isCopy, isMove) ==
    IF ~n.ok \/ n.w.failed THEN n.w
    ELSE place(forceRemove(n.w, e, n.c, force), e, n.c, isCopy, isMove)

installArgOn(n, e, force, isCopy, isMove) ==
    IF ~n.ok THEN n.w
    ELSE place(forceRemove(n.w, e, n.c, force), e, n.c, isCopy, isMove)

\* One iteration of the loop of command.install.
installArg(w, e, arg, force, isCopy, isMove, noExt, rename) ==
    installArgOn(newInstallCommand(w, e, arg, noExt, rename), e, force, isCopy, isMove)

(***************************************************************************)
(* list and remove.                                                        *)
(***************************************************************************)
Put(m, k, v) == [x \in DOMAIN m \cup {k} |-> IF x = k THEN v ELSE m[x]]

\* The value of a Go map of slices at k: nil when k is not a key.
At(m, k) == IF k \in DOMAIN m THEN m[k] ELSE <<>>

EmptyMap == [x \in {} |-> Empty]

EmptyRegistry ==
    [names |-> <<>>, nameToAbsTarget |-> EmptyMap, pathToAbsTarget |-> EmptyMap,
     absTargetToNames |-> EmptyMap]

\* command.files, wb the world after c.bin() and rd the result of
\* os.ReadDir: [w, files]
\* A files that takes a directory it cannot read for an empty one.
filesOnLenient(wb, rd) ==
    IF wb.exited THEN [w |-> wb, files |-> <<>>]
    ELSE [w |-> wb, files |-> rd.files]

filesOn(wb, rd) ==
    IF wb.exited THEN [w |-> wb, files |-> <<>>]
    ELSE IF rd.err # "ok" THEN [w |-> Fatal(wb, "reading", wb.binDir), files |-> <<>>]
    ELSE [w |-> wb, files |-> rd.files]

filesIn(wb, e) == filesOn(wb, ReadDir(wb.fs, e.wd, wb.binDir))

files(w, e) == filesIn(bin(w, e), e)

\* A skip that passes hidden entries.
skipDirectories(file) == file.type = "dir"

skip(file) == file.type = "dir" \/ HasPrefix(file.name, Dot)

\* The maps with one more program.
Registered(reg, name, path, absTarget) ==
    [reg EXCEPT !.names = Append(@, name),
                !.nameToAbsTarget = Put(@, name, absTarget),
                !.pathToAbsTarget = Put(@, path, absTarget)]

\* A registry that keeps the last name of a target only.
TargetedLast(reg, name, absTarget) ==
    [reg EXCEPT !.absTargetToNames = Put(@, absTarget, << name >>)]

Targeted(reg, name, absTarget) ==
    [reg EXCEPT !.absTargetToNames = Put(@, absTarget, Append(At(@, absTarget), name))]

\* A scan that resolves every link to its end and gives up at the first
\* that cannot be resolved.
scanFileResolving(w, reg, file, path, link) ==
    IF skip(file) THEN [w |-> w, reg |-> reg]
    ELSE IF ~isSymlink(file) THEN [w |-> w, reg |-> Registered(reg, file.name, path, Empty)]
    ELSE IF link.err # "ok" \/ Stat(w.fs, Slash, path).err # "ok"
         THEN [w |-> Fatal(w, "resolving", file.name),
               reg |-> [reg EXCEPT !.names = Append(@, file.name)]]
    ELSE [w |-> w,
          reg |-> Targeted(Registered(reg, file.name, path, ensureAbs(w.binDir, link.text)),
                           file.name, ensureAbs(w.binDir, link.text))]

\* The body of the loop of newLsRmCommand for one file, link the result of
\* os.Readlink(path): [w, reg]
scanFile(w, reg, file, path, link) ==
    IF skip(file) THEN [w |-> w, reg |-> reg]
    ELSE IF ~isSymlink(file) THEN [w |-> w, reg |-> Registered(reg, file.name, path, Empty)]
    ELSE IF link.err # "ok"
         THEN [w |-> Fatal(w, link.err, file.name),
               reg |-> [reg EXCEPT !.names = Append(@, file.name)]]
    ELSE [w |-> w,
          reg |-> Targeted(Registered(reg, file.name, path, ensureAbs(w.binDir, link.text)),
                           file.name, ensureAbs(w.binDir, link.text))]

scanPath(w, e, reg, file, path) ==
    scanFile(w, reg, file, path, Readlink(w.fs, e.wd, path))

\* The loop of newLsRmCommand from file i on: [w, reg]
RECURSIVE scanFrom(_, _, _, _)
scanFrom(s, e, fl, i) ==
    IF i > Len(fl) \/ s.w.exited THEN s
    ELSE scanFrom(scanPath(s.w, e, s.reg, fl[i], Join(s.w.binDir, fl[i].name)), e, fl, i + 1)

newLsRmCommandOn(fl, e) == scanFrom([w |-> fl.w, reg |-> EmptyRegistry], e, fl.files, 1)

\* newLsRmCommand: [w, reg]
newLsRmCommand(w, e) == newLsRmCommandOn(files(w, e), e)

Match(name, absTarget) == [name |-> name, absTarget |-> absTarget]

TargetMatches(names, abs) == [i \in 1..Len(names) |-> Match(names[i], abs)]

\* A find without the rule that matches the argument as a name.
findOnPathAndTarget(reg, directOnly, targetOnly, arg, abs) ==
    (IF ~targetOnly /\ abs \in DOMAIN reg.pathToAbsTarget
     THEN << Match(Base(arg), reg.pathToAbsTarget[abs]) >> ELSE <<>>)
    \o (IF ~directOnly THEN TargetMatches(At(reg.absTargetToNames, abs), abs) ELSE <<>>)

\* A find that gives the target-rule matches before the others.
findOnTargetFirst(reg, directOnly, targetOnly, arg, abs) ==
    (IF ~directOnly THEN TargetMatches(At(reg.absTargetToNames, abs), abs) ELSE <<>>)
    \o (IF ~targetOnly /\ arg \in DOMAIN reg.nameToAbsTarget
        THEN << Match(arg, reg.nameToAbsTarget[arg]) >> ELSE <<>>)
    \o (IF ~targetOnly /\ abs \in DOMAIN reg.pathToAbsTarget
        THEN << Match(Base(arg), reg.pathToAbsTarget[abs]) >> ELSE <<>>)

\* lsRmCommand.find, abs the result of filepath.Abs(arg): the matches of
\* one argument, in order.
findOn(reg, directOnly, targetOnly, arg, abs) ==
    (IF ~targetOnly /\ arg \in DOMAIN reg.nameToAbsTarget
     THEN << Match(arg, reg.nameToAbsTarget[arg]) >> ELSE <<>>)
    \o (IF ~targetOnly /\ abs \in DOMAIN reg.pathToAbsTarget
        THEN << Match(Base(arg), reg.pathToAbsTarget[abs]) >> ELSE <<>>)
    \o (IF ~directOnly THEN TargetMatches(At(reg.absTargetToNames, abs), abs) ELSE <<>>)

find(reg, e, directOnly, targetOnly, arg) ==
    findOn(reg, directOnly, targetOnly, arg, Abs(e.wd, arg))

Broken == "(broken)"

ListLine(verb, program, target, note) ==
    [verb |-> verb, name |-> program, target |-> target, note |-> note]

\* lsRmCommand.listProgram, st the result of os.Stat(match.absTarget)
listProgramOn(w, verb, program, showTarget, m, st) ==
    IF ~showTarget \/ m.absTarget = Empty THEN Output(w, ListLine(verb, program, Empty, ""))
    ELSE IF IsNotExist(st.err) THEN Output(w, ListLine(verb, program, m.absTarget, Broken))
    ELSE IF st.err # "ok" THEN Error(w, st.err, m.name)
    ELSE Output(w, ListLine(verb, program, m.absTarget, ""))

listProgram(w, e, verb, showPath, showTarget, m) ==
    listProgramOn(w, verb, IF showPath THEN Join(w.binDir, m.name) ELSE m.name,
                  showTarget, m, Stat(w.fs, e.wd, m.absTarget))

\* A removeProgram that does not report the failure of os.Remove.
removedUnreported(w, m, rm) == SetFs(w, rm.fs)

\* The end of lsRmCommand.removeProgram, rm the result of os.Remove
removed(w, m, rm) ==
    IF rm.err # "ok" THEN Error(SetFs(w, rm.fs), rm.err, m.name) ELSE SetFs(w, rm.fs)

\* A removeProgram that refuses the entries that resolve to the program at
\* /u/f, taken for the running executable.
removePathNotSelf(w, e, m) ==
    IF Stat(w.fs, e.wd, Join(w.binDir, m.name)).path = <<"/", "u", "/", "f">>
    THEN Error(w, "use --self", m.name)
    ELSE removed(w, m, Remove(w.fs, e.wd, Join(w.binDir, m.name)))

removePath(w, e, m) == removed(w, m, Remove(w.fs, e.wd, Join(w.binDir, m.name)))

\* lsRmCommand.removeProgram
removeProgram(w, e, m) ==
    removePath(listProgram(w, e, "Removing", FALSE, TRUE, m), e, m)

Acted(w, m) == [w EXCEPT !.acts = Append(@, m)]

\* The action perform is given: the action of list or of remove.
act(w, e, o, m) ==
    IF o.name = "remove" THEN removeProgram(Acted(w, m), e, m)
    ELSE listProgram(Acted(w, m), e, "", o.showPath, o.showTarget, m)

\* The inner loop of lsRmCommand.perform over the matches of one argument:
\* [w, seen]
RECURSIVE performMatches(_, _, _, _, _, _)
performMatches(w, e, o, seen, matches, i) ==
    IF i > Len(matches) THEN [w |-> w, seen |-> seen]
    ELSE IF matches[i].name \in seen THEN performMatches(w, e, o, seen, matches, i + 1)
    ELSE performMatches(act(w, e, o, matches[i]), e, o,
                        seen \cup {matches[i].name}, matches, i + 1)

\* A perform that reports an argument without a match in quiet mode too.
performFoundLoud(w, e, o, seen, arg, matches) ==
    performMatches(IF Len(matches) = 0 THEN Error(w, "no match found", arg) ELSE w,
                   e, o, seen, matches, 1)

performFound(w, e, o, seen, arg, matches) ==
    performMatches(IF ~o.ignoreNoMatch /\ Len(matches) = 0
                   THEN Error(w, "no match found", arg) ELSE w,
                   e, o, seen, matches, 1)

\* One iteration of the outer loop of lsRmCommand.perform: [w, seen]
performArg(w, e, o, reg, seen, arg) ==
    performFound(w, e, o, seen, arg, find(reg, e, o.directOnly, o.targetOnly, arg))

\* The loop of command.list without arguments.
RECURSIVE listAll(_, _, _, _, _)
listAll(w, e, o, reg, i) ==
    IF i > Len(reg.names) THEN w
    ELSE listAll(act(w, e, o, Match(reg.names[i], reg.nameToAbsTarget[reg.names[i]])),
                 e, o, reg, i + 1)

(***************************************************************************)
(* prune and doctor.                                                       *)
(***************************************************************************)
BrokenLine(name, absTarget) ==
    [verb |-> "Removing", name |-> name, target |-> absTarget, note |-> Broken]

\* The removal in command.prune, rm the result of os.Remove(path)
pruned(w, file, absTarget, rm) ==
    IF rm.err # "ok"
    THEN Error(SetFs(Output(w, BrokenLine(file.name, absTarget)), rm.fs), rm.err, file.name)
    ELSE SetFs(Output(w, BrokenLine(file.name, absTarget)), rm.fs)

\* The body of the loop of command.prune for one file, link the result of
\* os.Readlink(path) and st of os.Stat(path)
pruneFile(w, e, file, path, link, st) ==
    IF skip(file) \/ ~isSymlink(file) THEN w
    ELSE IF link.err # "ok" THEN Error(w, link.err, file.name)
    ELSE IF IsNotExist(st.err)
         THEN pruned(w, file, ensureAbs(w.binDir, link.text), Remove(w.fs, e.wd, path))
    ELSE IF st.err # "ok" THEN Fatal(w, st.err, file.name)
    ELSE w

prunePath(w, e, file, path) ==
    pruneFile(w, e, file, path, Readlink(w.fs, e.wd, path), Stat(w.fs, e.wd, path))

\* The loop of command.prune from file i on.
RECURSIVE pruneFrom(_, _, _, _)
pruneFrom(w, e, fl, i) ==
    IF i > Len(fl) \/ w.exited THEN w
    ELSE pruneFrom(prunePath(w, e, fl[i], Join(w.binDir, fl[i].name)), e, fl, i + 1)

pruneOn(fl, e) == pruneFrom(fl.w, e, fl.files, 1)

\* command.prune, after validate
prune(w, e) == pruneOn(files(w, e), e)

\* A doctor that accepts absolute links.
doctorFileAnyLink(w, file, path, info, link) ==
    IF file.type = "dir" THEN Error(w, "unexpected directory", path)
    ELSE IF skip(file) THEN w
    ELSE IF isSymlink(file) /\ IsNotExist(info.err) THEN Error(w, "broken symlink", path)
    ELSE IF info.err # "ok" THEN Error(w, info.err, path)
    ELSE IF ~isExecutable(Mode(info.node)) THEN Error(w, "not an executable", path)
    ELSE IF ~isSymlink(file) THEN w
    ELSE IF link.err # "ok" THEN Error(w, link.err, path)
    ELSE w

\* The body of the loop of command.doctor for one file, info the result of
\* os.Stat(path) and link of os.Readlink(path)
doctorFile(w, file, path, info, link) ==
    IF file.type = "dir" THEN Error(w, "unexpected directory", path)
    ELSE IF skip(file) THEN w
    ELSE IF isSymlink(file) /\ IsNotExist(info.err) THEN Error(w, "broken symlink", path)
    ELSE IF info.err # "ok" THEN Error(w, info.err, path)
    ELSE IF ~isExecutable(Mode(info.node)) THEN Error(w, "not an executable", path)
    ELSE IF ~isSymlink(file) THEN w
    ELSE IF link.err # "ok" THEN Error(w, link.err, path)
    ELSE IF IsAbs(link.text) THEN Error(w, "symlink is absolute", path)
    ELSE w

doctorPath(w, e, file, path) ==
    doctorFile(w, file, path, Stat(w.fs, e.wd, path), Readlink(w.fs, e.wd, path))

\* The loop of command.doctor from file i on.
RECURSIVE doctorFrom(_, _, _, _)
doctorFrom(w, e, fl, i) ==
    IF i > Len(fl) \/ w.exited THEN w
    ELSE doctorFrom(doctorPath(w, e, fl[i], Join(w.binDir, fl[i].name)), e, fl, i + 1)

doctorOn(fl, e) == doctorFrom(fl.w, e, fl.files, 1)

\* command.doctor, after validate
doctor(w, e) == doctorOn(files(w, e), e)

(***************************************************************************)
(* The options.  Arguments are strings, indexes count from 0 as in the     *)
(* code, and the two maps are functions from the flags seen to indexes.    *)
(* panicked is set when the code panics: the process then dies.            *)
(***************************************************************************)
Dash == <<"-">>

DashDash == <<"-", "-">>

NoFlags == [x \in {} |-> -1]

\* The options parseOptions starts from.
NewOptions ==
    [args |-> <<>>, short |-> NoFlags, long |-> NoFlags, first |-> -1, errors |-> <<>>,
     panicked |-> FALSE]

\* options.error
optionsError(o, what, message) == [o EXCEPT !.errors = Append(@, <<what, message>>)]

\* delete(o.short, short), delete(o.long, long)
Delete(m, k) == [x \in DOMAIN m \ {k} |-> m[x]]

\* The closures parseOptions keeps in setArgIndex.
Nop == [kind |-> "nop", key |-> Empty]

SetFirst == [kind |-> "first", key |-> Empty]

SetLong(key) == [kind |-> "long", key |-> key]

SetShort(r) == [kind |-> "short", key |-> r]

\* The call setArgIndex() when index is the index of the argument appended.
setArgIndex(o, set, index) ==
    IF set.kind = "first" THEN [o EXCEPT !.first = index]
    ELSE IF set.kind = "long" THEN [o EXCEPT !.long = Put(@, set.key, index)]
    ELSE IF set.kind = "short" THEN [o EXCEPT !.short = Put(@, set.key, index)]
    ELSE o

\* The loop of parseOptions over the runes of a group of short flags.
RECURSIVE shortFlags(_, _)
shortFlags(o, chars) ==
    IF chars = <<>> THEN o
    ELSE IF Head(chars) \in DOMAIN o.short
         THEN shortFlags(optionsError(o, Dash \o <<Head(chars)>>, "duplicate flag"),
                         Tail(chars))
    ELSE shortFlags([o EXCEPT !.short = Put(@, Head(chars), -1)], Tail(chars))

\* One turn of the loop of parseOptions, on the state
\* [opts, index, setArgIndex, processFlags].
parseArg(s, arg) ==
    IF s.processFlags /\ arg = DashDash
    THEN [s EXCEPT !.processFlags = FALSE, !.setArgIndex = Nop]
    ELSE IF s.processFlags /\ Len(arg) >= 3 /\ HasPrefix(arg, DashDash)
    THEN IF SubSeq(arg, 3, Len(arg)) \in DOMAIN s.opts.long
         THEN [s EXCEPT !.opts = optionsError(@, arg, "duplicate flag"),
                        !.setArgIndex = Nop]
         ELSE [s EXCEPT !.opts.long = Put(@, SubSeq(arg, 3, Len(arg)), -1),
                        !.setArgIndex = SetLong(SubSeq(arg, 3, Len(arg)))]
    ELSE IF s.processFlags /\ Len(arg) >= 2 /\ HasPrefix(arg, Dash)
    THEN [s EXCEPT !.opts = shortFlags(@, Tail(arg)),
                   !.setArgIndex = IF Len(arg) = 2 THEN SetShort(arg[2]) ELSE Nop]
    ELSE [s EXCEPT !.opts = setArgIndex([@ EXCEPT !.args = Append(@, arg)],
                                        s.setArgIndex, s.index),
                   !.setArgIndex = Nop,
                   !.index = @ + 1]

RECURSIVE parseFrom(_, _)
parseFrom(s, rest) ==
    IF rest = <<>> THEN s ELSE parseFrom(parseArg(s, Head(rest)), Tail(rest))

parseOptions(args) ==
    parseFrom([opts |-> NewOptions, index |-> 0, setArgIndex |-> SetFirst,
               processFlags |-> TRUE], args).opts

\* The indexes of a map after the argument at index has gone.
Shifted(m, index) == [k \in DOMAIN m |-> IF m[k] > index THEN m[k] - 1 ELSE m[k]]

\* options.removeArg
removeArg(o, index) ==
    IF \/ \E k \in DOMAIN o.short : o.short[k] = index
       \/ \E k \in DOMAIN o.long : o.long[k] = index
    THEN [o EXCEPT !.panicked = TRUE]
    ELSE [o EXCEPT !.args = SubSeq(@, 1, index) \o SubSeq(@, index + 2, Len(@)),
                   !.short = Shifted(@, index),
                   !.long = Shifted(@, index)]

\* value = o.args[i]; o.removeArg(i): the index is out of range when the
\* list is not that long, and the code panics.
takeArg(r, i) ==
    IF i < 0 \/ i >= Len(r.opts.args)
    THEN [r EXCEPT !.opts.panicked = TRUE]
    ELSE [opts |-> removeArg(r.opts, i), value |-> r.opts.args[i + 1]]

\* options.shift: [opts, value]
shift(o) ==
    IF o.first = -1 THEN [opts |-> [o EXCEPT !.panicked = TRUE], value |-> Empty]
    ELSE [takeArg([opts |-> o, value |-> Empty], o.first) EXCEPT !.opts.first = -1]

BothFlags(short, long) == Dash \o <<short>> \o <<" ">> \o DashDash \o long

\* options.bool: [opts, value]
bool(o, short, long) ==
    [opts |-> IF short \in DOMAIN o.short /\ long \in DOMAIN o.long
              THEN optionsError([o EXCEPT !.short = Delete(@, short),
                                          !.long = Delete(@, long)],
                                BothFlags(short, long), "duplicate flags")
              ELSE [o EXCEPT !.short = Delete(@, short), !.long = Delete(@, long)],
     value |-> short \in DOMAIN o.short \/ long \in DOMAIN o.long]

\* The part of options.string for the short flag, i what o.short[short] gave.
stringShort(r, i, shortOk, short) ==
    IF ~shortOk THEN r
    ELSE IF i = -1
    THEN [r EXCEPT !.opts = optionsError([@ EXCEPT !.short = Delete(@, short)],
                                         Dash \o <<short>>, "missing argument")]
    ELSE takeArg([r EXCEPT !.opts.short = Delete(@, short)], i)

\* The part for the long flag: the index of the long flag is not read, and i
\* is still what the look-up of the short flag gave.
stringLong(r, i, longOk, long) ==
    IF r.opts.panicked \/ ~longOk THEN r
    ELSE IF i = -1
    THEN [r EXCEPT !.opts = optionsError([@ EXCEPT !.long = Delete(@, long)],
                                         DashDash \o long, "missing argument")]
    ELSE takeArg([r EXCEPT !.opts.long = Delete(@, long)], i)

stringBoth(r, shortOk, longOk, short, long) ==
    IF ~r.opts.panicked /\ shortOk /\ longOk
    THEN [r EXCEPT !.opts = optionsError(@, BothFlags(short, long), "duplicate flags")]
    ELSE r

\* The value of i after i, shortOk = o.short[short]: 0 when short is no key.
Lookup(m, k) == IF k \in DOMAIN m THEN m[k] ELSE 0

\* options.string: [opts, value]
string(o, short, long) ==
    stringBoth(stringLong(stringShort([opts |-> o, value |-> Empty],
                                      Lookup(o.short, short), short \in DOMAIN o.short,
                                      short),
                          Lookup(o.short, short), long \in DOMAIN o.long, long),
               short \in DOMAIN o.short, long \in DOMAIN o.long, short, long)

(***************************************************************************)
(* The state: the file system and the environment, and one process of the  *)
(* program at a time.  pc is where the process is: "idle" before main      *)
(* runs, "install" and "perform" inside the loops over the arguments,      *)
(* "return" when the command has returned to main, "done" after the exit.  *)
(***************************************************************************)
VARIABLES
    fs,         \* the file system
    env,        \* [wd, umask, xdg, home] of the process
    pc,
    cmd,        \* the parsed options of the command being run
    idx,        \* the index in cmd.args of the next argument
    failed,     \* command.failed
    binDir,     \* command.binDir
    errs,       \* the errors written to stderr by command.error
    out,        \* the lines written to stdout
    acts,       \* the matches the action of perform was applied to
    reg,        \* the maps of lsRmCommand
    seen,       \* the local seen of perform
    found,      \* what find returned for the last argument
    exitCode,   \* the exit status of the process, -1 while it runs
    runs,       \* the processes started so far
    prev,       \* what the previous process was and how it ended
    fs0,        \* the file system when the process started
    raw,        \* os.Args[1:], when the run follows the parsing of the options
    opts,       \* the options of main
    value       \* what the last options.shift or options.string returned

vars == <<fs, env, pc, cmd, idx, failed, binDir, errs, out, acts, reg, seen, found,
          exitCode, runs, prev, fs0, raw, opts, value>>

\* The world of the running process.
World ==
    [fs |-> fs, failed |-> failed, binDir |-> binDir, errs |-> errs, out |-> out,
     acts |-> acts, exited |-> FALSE]

\* The process goes on from world w at next, unless w has called os.Exit(1).
Continue(w, next) ==
    /\ fs' = w.fs
    /\ failed' = w.failed
    /\ binDir' = w.binDir
    /\ errs' = w.errs
    /\ out' = w.out
    /\ acts' = w.acts
    /\ pc' = IF w.exited THEN "done" ELSE next
    /\ exitCode' = IF w.exited THEN 1 ELSE exitCode

\* The same, with the maps of the lsRmCommand just made.
Started(s, next) == reg' = s.reg /\ Continue(s.w, next)

\* The same, with the seen of perform.
Performed(r, next) == seen' = r.seen /\ Continue(r.w, next)

NoOptions ==
    [name |-> "", args |-> <<>>, bad |-> FALSE, force |-> FALSE, copy |-> FALSE,
     move |-> FALSE, noExt |-> FALSE, rename |-> Empty, showPath |-> FALSE,
     showTarget |-> FALSE, directOnly |-> FALSE, targetOnly |-> FALSE,
     ignoreNoMatch |-> FALSE]

NoPrev == [cmd |-> NoOptions, wd |-> Empty, exitCode |-> -1, errs |-> <<>>,
           out |-> <<>>]

\* command.validate: unrecognized flags and option errors (o.bad), then the
\* number of arguments; the process exits if any error was recorded.
exitIfFailed(w) == IF w.failed THEN [w EXCEPT !.exited = TRUE] ELSE w

validateArgs(w, o, validation) ==
    IF validation = "noArgs" /\ Len(o.args) > 0
    THEN Error(w, "unexpected argument", o.args[1])
    ELSE IF validation = "atLeastOneArg" /\ Len(o.args) = 0
    THEN Error(w, "expected at least one argument", Empty)
    ELSE w

validate(w, o, validation) ==
    exitIfFailed(validateArgs(IF o.bad THEN Error(w, "unrecognized flag", Empty) ELSE w,
                              o, validation))

\* command.install up to its loop
installChecks(w1, o) ==
    IF w1.exited THEN w1
    ELSE IF o.copy /\ o.move THEN Fatal(w1, "cannot use --copy and --move together", Empty)
    ELSE IF o.noExt /\ o.rename # Empty
         THEN Fatal(w1, "cannot use --no-ext and --rename together", Empty)
    ELSE IF o.rename # Empty /\ Len(o.args) # 1
         THEN Fatal(w1, "--rename requires a single program", Empty)
    ELSE w1

installStart(w, o) == installChecks(validate(w, o, "atLeastOneArg"), o)

StartInstall(o) ==
    /\ pc = "idle"
    /\ o.name = "install"
    /\ cmd' = o
    /\ idx' = 1
    /\ Continue(installStart(World, o), "install")
    /\ UNCHANGED <<env, raw, opts, value, reg, seen, found, runs, prev, fs0>>

InstallArg ==
    /\ pc = "install"
    /\ idx <= Len(cmd.args)
    /\ idx' = idx + 1
    /\ Continue(installArg(World, env, cmd.args[idx], cmd.force, cmd.copy, cmd.move,
                           cmd.noExt, cmd.rename),
                IF idx = Len(cmd.args) THEN "return" ELSE "install")
    /\ UNCHANGED <<env, raw, opts, value, cmd, reg, seen, found, runs, prev, fs0>>

\* command.list up to perform, or to its end when there are no arguments
listChecks(w1, e, o, r) ==
    IF w1.exited THEN w1
    ELSE IF o.directOnly /\ o.targetOnly
         THEN Fatal(w1, "cannot use --direct and --target together", Empty)
    ELSE IF Len(o.args) > 0 THEN w1
    ELSE listAll(w1, e, o, r, 1)

listOn(n, e, o) ==
    IF n.w.exited THEN n
    ELSE [w |-> listChecks(validate(n.w, o, "anyArgs"), e, o, n.reg), reg |-> n.reg]

listStart(w, e, o) == listOn(newLsRmCommand(w, e), e, o)

StartList(o) ==
    /\ pc = "idle"
    /\ o.name = "list"
    /\ cmd' = o
    /\ idx' = 1
    /\ Started(listStart(World, env, o), IF Len(o.args) > 0 THEN "perform" ELSE "return")
    /\ UNCHANGED <<env, raw, opts, value, seen, found, runs, prev, fs0>>

\* command.remove up to perform
removeOn(n, o) ==
    IF n.w.exited THEN n ELSE [w |-> validate(n.w, o, "atLeastOneArg"), reg |-> n.reg]

removeStart(w, e, o) == removeOn(newLsRmCommand(w, e), o)

StartRemove(o) ==
    /\ pc = "idle"
    /\ o.name = "remove"
    /\ cmd' = o
    /\ idx' = 1
    /\ Started(removeStart(World, env, o), "perform")
    /\ UNCHANGED <<env, raw, opts, value, seen, found, runs, prev, fs0>>

PerformArg ==
    /\ pc = "perform"
    /\ idx <= Len(cmd.args)
    /\ idx' = idx + 1
    /\ found' = find(reg, env, cmd.directOnly, cmd.targetOnly, cmd.args[idx])
    /\ Performed(performArg(World, env, cmd, reg, seen, cmd.args[idx]),
                 IF idx = Len(cmd.args) THEN "return" ELSE "perform")
    /\ UNCHANGED <<env, raw, opts, value, cmd, reg, runs, prev, fs0>>

pruneValid(w1, e) == IF w1.exited THEN w1 ELSE prune(w1, e)

\* command.prune
pruneCommand(w, e, o) == pruneValid(validate(w, o, "noArgs"), e)

Prune(o) ==
    /\ pc = "idle"
    /\ o.name = "prune"
    /\ cmd' = o
    /\ Continue(pruneCommand(World, env, o), "return")
    /\ UNCHANGED <<env, raw, opts, value, idx, reg, seen, found, runs, prev, fs0>>

doctorValid(w1, e) == IF w1.exited THEN w1 ELSE doctor(w1, e)

\* command.doctor
doctorCommand(w, e, o) == doctorValid(validate(w, o, "noArgs"), e)

Doctor(o) ==
    /\ pc = "idle"
    /\ o.name = "doctor"
    /\ cmd' = o
    /\ Continue(doctorCommand(World, env, o), "return")
    /\ UNCHANGED <<env, raw, opts, value, idx, reg, seen, found, runs, prev, fs0>>

\* command.path
pathShown(wb) ==
    IF wb.exited THEN wb
    ELSE Output(wb, [verb |-> "", name |-> wb.binDir, target |-> Empty, note |-> ""])

pathValid(w1, e) == IF w1.exited THEN w1 ELSE pathShown(bin(w1, e))

path(w, e, o) == pathValid(validate(w, o, "noArgs"), e)

Path(o) ==
    /\ pc = "idle"
    /\ o.name = "path"
    /\ cmd' = o
    /\ Continue(path(World, env, o), "return")
    /\ UNCHANGED <<env, raw, opts, value, idx, reg, seen, found, runs, prev, fs0>>

\* command.help; the topic is the first argument as a command name.
helpValid(w1, topic) ==
    IF w1.exited THEN w1
    ELSE IF topic \in {"", "help", "path", "prune", "doctor", "i", "install", "ls",
                       "list", "rm", "remove"}
         THEN Output(w1, [verb |-> "Usage", name |-> Empty, target |-> Empty,
                          note |-> topic])
    ELSE Fatal(w1, "unrecognized command", Empty)

help(w, o, topic) == helpValid(validate(w, o, "anyArgs"), topic)

Help(o, topic) ==
    /\ pc = "idle"
    /\ o.name = "help"
    /\ cmd' = o
    /\ Continue(help(World, o, topic), "return")
    /\ UNCHANGED <<env, raw, opts, value, idx, reg, seen, found, runs, prev, fs0>>

\* command.dispatch with no command or with one it does not know
Unrecognized(o) ==
    /\ pc = "idle"
    /\ o.name \in {"", "unknown"}
    /\ cmd' = o
    /\ Continue(Fatal(World, IF o.name = "" THEN "missing command"
                             ELSE "unrecognized command", Empty), "return")
    /\ UNCHANGED <<env, raw, opts, value, idx, reg, seen, found, runs, prev, fs0>>

\* The names of the flags and commands that main and install look for.
HelpFlag == <<"h", "e", "l", "p">>

ForceFlag == <<"f", "o", "r", "c", "e">>

CopyFlag == <<"c", "o", "p", "y">>

MoveFlag == <<"m", "o", "v", "e">>

NoExtFlag == <<"n", "o", "-", "e", "x", "t">>

RenameFlag == <<"r", "e", "n", "a", "m", "e">>

InstallName == <<"i", "n", "s", "t", "a", "l", "l">>

\* The case of command.dispatch a name falls in.
CommandName(s) ==
    IF s = Empty THEN ""
    ELSE IF s = HelpFlag THEN "help"
    ELSE IF s \in {<<"i">>, InstallName} THEN "install"
    ELSE "unknown"

\* main up to cmd.dispatch: [opts, value], value the name of the command.
mainName(h, noArgs) ==
    IF h.value \/ noArgs THEN [opts |-> h.opts, value |-> HelpFlag]
    ELSE IF h.opts.first # -1 THEN shift(h.opts)
    ELSE [opts |-> h.opts, value |-> Empty]

main(args) == mainName(bool(parseOptions(args), "h", HelpFlag), args = <<>>)

\* What command.validate finds wrong with the options.
Bad(o) == DOMAIN o.short # {} \/ DOMAIN o.long # {} \/ o.errors # <<>>

\* The process dies of a panic, with exit status 2.
Panic ==
    /\ pc' = "done"
    /\ exitCode' = 2
    /\ UNCHANGED <<fs, failed, binDir, errs, out, acts>>

Main ==
    /\ pc = "idle"
    /\ opts' = main(raw).opts
    /\ value' = main(raw).value
    /\ IF main(raw).opts.panicked THEN Panic
       ELSE pc' = "dispatch" /\ UNCHANGED <<fs, failed, binDir, errs, out, acts, exitCode>>
    /\ UNCHANGED <<env, raw, cmd, idx, reg, seen, found, runs, prev, fs0>>

\* command.install: the four calls of opts.bool
installFlags(o, force, isCopy, isMove, noExt) ==
    [opts |-> noExt.opts,
     cmd |-> [NoOptions EXCEPT !.name = "install", !.force = force.value,
                               !.copy = isCopy.value, !.move = isMove.value,
                               !.noExt = noExt.value]]

InstallFlags ==
    /\ pc = "dispatch"
    /\ CommandName(value) = "install"
    /\ LET force == bool(opts, "f", ForceFlag)
           isCopy == bool(force.opts, "c", CopyFlag)
           isMove == bool(isCopy.opts, "m", MoveFlag)
           noExt == bool(isMove.opts, "n", NoExtFlag)
       IN  /\ opts' = installFlags(opts, force, isCopy, isMove, noExt).opts
           /\ cmd' = installFlags(opts, force, isCopy, isMove, noExt).cmd
    /\ pc' = "rename"
    /\ UNCHANGED <<fs, env, raw, value, idx, failed, binDir, errs, out, acts, reg, seen,
                   found, exitCode, runs, prev, fs0>>

\* command.install: rename := opts.string('r', "rename")
InstallRename ==
    /\ pc = "rename"
    /\ opts' = string(opts, "r", RenameFlag).opts
    /\ value' = string(opts, "r", RenameFlag).value
    /\ IF string(opts, "r", RenameFlag).opts.panicked THEN Panic
       ELSE pc' = "validate" /\ UNCHANGED <<fs, failed, binDir, errs, out, acts, exitCode>>
    /\ UNCHANGED <<env, raw, cmd, idx, reg, seen, found, runs, prev, fs0>>

\* The options of install as the rest of the command reads them.
Parsed(c, o, rename) == [c EXCEPT !.args = o.args, !.rename = rename, !.bad = Bad(o)]

\* command.install from c.validate to its loop
InstallValidate ==
    /\ pc = "validate"
    /\ cmd' = Parsed(cmd, opts, value)
    /\ idx' = 1
    /\ Continue(installStart(World, Parsed(cmd, opts, value)), "install")
    /\ UNCHANGED <<env, raw, opts, value, reg, seen, found, runs, prev, fs0>>

\* command.dispatch on any other name: help when there are no arguments at
\* all, no command, or a command it does not know.
dispatchOther(w, o) ==
    IF o.name = "help"
    THEN help(w, o, IF o.args = <<>> THEN "" ELSE CommandName(o.args[1]))
    ELSE Fatal(w, IF o.name = "" THEN "missing command" ELSE "unrecognized command",
               Empty)

DispatchOther ==
    /\ pc = "dispatch"
    /\ CommandName(value) # "install"
    /\ cmd' = Parsed([NoOptions EXCEPT !.name = CommandName(value)], opts, Empty)
    /\ Continue(dispatchOther(World, Parsed([NoOptions EXCEPT !.name = CommandName(value)],
                                            opts, Empty)), "return")
    /\ UNCHANGED <<env, raw, opts, value, idx, reg, seen, found, runs, prev, fs0>>

\* The end of main: the exit status is 1 if command.failed.
Exit ==
    /\ pc = "return"
    /\ pc' = "done"
    /\ exitCode' = IF failed THEN 1 ELSE 0
    /\ UNCHANGED <<fs, env, raw, opts, value, cmd, idx, failed, binDir, errs, out, acts,
                   reg, seen, found,
                   runs, prev, fs0>>

\* The number of processes run one after the other.
MaxRuns == 2

\* The next process starts, in working directory wd, on the file system the
\* last one left.
NewProcess(wd) ==
    /\ pc = "done"
    /\ runs < MaxRuns
    /\ runs' = runs + 1
    /\ prev' = [cmd |-> cmd, wd |-> env.wd, exitCode |-> exitCode, errs |-> errs,
                out |-> out]
    /\ env' = [env EXCEPT !.wd = wd]
    /\ pc' = "idle"
    /\ cmd' = NoOptions
    /\ idx' = 1
    /\ failed' = FALSE
    /\ binDir' = Empty
    /\ errs' = <<>>
    /\ out' = <<>>
    /\ acts' = <<>>
    /\ reg' = EmptyRegistry
    /\ seen' = {}
    /\ found' = <<>>
    /\ exitCode' = -1
    /\ fs0' = fs
    /\ UNCHANGED <<fs, raw, opts, value>>

\* The state before main runs, on file system f in environment e, when the
\* arguments of the process are args.
StartOn(f, e, args) ==
    /\ fs = f
    /\ env = e
    /\ pc = "idle"
    /\ cmd = NoOptions
    /\ idx = 1
    /\ failed = FALSE
    /\ binDir = Empty
    /\ errs = <<>>
    /\ out = <<>>
    /\ acts = <<>>
    /\ reg = EmptyRegistry
    /\ seen = {}
    /\ found = <<>>
    /\ exitCode = -1
    /\ runs = 1
    /\ prev = NoPrev
    /\ fs0 = f
    /\ raw = args
    /\ opts = NewOptions
    /\ value = Empty

\* The same, for the runs that take the options as parsed.
Start(f, e) == StartOn(f, e, <<>>)

(***************************************************************************)
(* The file systems, environments and command lines the model is run on.   *)
(***************************************************************************)
Root == Slash
BinDir == <<"/", "b">>
Usr == <<"/", "u">>
Home == <<"/", "h">>
BinF == <<"/", "b", "/", "f">>
BinG == <<"/", "b", "/", "g">>
BinA == <<"/", "b", "/", "a">>
BinC == <<"/", "b", "/", "c">>
BinHidden == <<"/", "b", "/", ".", "h">>
UsrF == <<"/", "u", "/", "f">>
UsrG == <<"/", "u", "/", "g">>
UsrX == <<"/", "u", "/", "x">>
UsrHidden == <<"/", "u", "/", ".", "h">>
UsrDot == <<"/", "u", "/", ".">>
UsrDotX == <<"/", "u", "/", ".", "x">>
BinGDot == <<"/", "b", "/", "g", "/", ".">>
BinSlash == <<"/", "b", "/">>
RelF == <<".", ".", "/", "f">>
RelUsrF == <<".", ".", "/", "u", "/", "f">>
RelUsrG == <<".", ".", "/", "u", "/", "g">>
RelUsrX == <<".", ".", "/", "u", "/", "x">>
NameA == <<"a">>
NameC == <<"c">>
NameF == <<"f">>
NameG == <<"g">>
NameX == <<"x">>

Data1 == <<"a">>
Data2 == <<"b">>
Data3 == <<"a", "a">>

Perm755 == {256, 128, 64, 32, 8, 4, 1}
Perm775 == {256, 128, 64, 32, 16, 8, 4, 1}
Perm644 == {256, 128, 32, 4}
Perm655 == {256, 128, 32, 8, 4, 1}
Umask022 == {16, 2}
Umask077 == {32, 16, 8, 4, 2, 1}

BaseDirs == {Root, BinDir, Usr}

\* The file systems that have the base directories and, at every path of
\* the function opt, one of the nodes opt allows there (NoNode: nothing).
RECURSIVE Assignments(_, _)
Assignments(opt, paths) ==
    IF paths = {} THEN { [p \in {} |-> NoNode] }
    ELSE LET q == CHOOSE q \in paths : TRUE
         IN  { Put(a, q, n) : a \in Assignments(opt, paths \ {q}), n \in opt[q] }

FsOf(a) ==
    [p \in BaseDirs \cup {q \in DOMAIN a : a[q] # NoNode} |->
        IF p \in DOMAIN a /\ a[p] # NoNode THEN a[p] ELSE DirNode]

FileSystems(opt) == { FsOf(a) : a \in Assignments(opt, DOMAIN opt) }

Env(wd, xdg) == [wd |-> wd, umask |-> Umask022, xdg |-> xdg, home |-> Home]

\* All sequences over S of length lo to hi.
RECURSIVE SeqsUpTo(_, _)
SeqsUpTo(S, n) ==
    IF n = 0 THEN { <<>> }
    ELSE LET shorter == SeqsUpTo(S, n - 1)
         IN  shorter \cup { Append(t, x) : t \in {u \in shorter : Len(u) = n - 1}, x \in S }

\* The number of arguments of one command line.
MaxArgs == 2

(***************************************************************************)
(* Spec: one process, any command, on a directory of up to two programs.   *)
(***************************************************************************)
MainOpt ==
    (BinF :> {NoNode, LinkNode(RelUsrF), LinkNode(UsrF), FileNode(Data1, Perm755)})
    @@ (BinG :> {NoNode, LinkNode(RelUsrF), LinkNode(RelUsrG), FileNode(Data2, Perm755),
                 DirNode})
    @@ (UsrF :> {FileNode(Data1, Perm755)})
    @@ (UsrG :> {FileNode(Data1, Perm644), FileNode(Data2, Perm755)})
    @@ (UsrHidden :> {FileNode(Data1, Perm644)})

MainWds == {Root, Usr}

InstallArgs == {UsrF, NameG, UsrHidden, UsrDot, UsrDotX}

\* The lists of arguments of one command line: every one of length 0 or 1,
\* and the longer ones.
ShortLists(S) == SeqsUpTo(S, 1)

LongLists(S) == SeqsUpTo(S, MaxArgs) \ ShortLists(S)

InstallOpts ==
    { [NoOptions EXCEPT !.name = "install", !.args = a, !.force = f, !.copy = m[1],
                        !.move = m[2]] :
        a \in ShortLists(InstallArgs), f \in BOOLEAN,
        m \in {<<FALSE, FALSE>>, <<TRUE, FALSE>>, <<FALSE, TRUE>>} }
    \cup { [NoOptions EXCEPT !.name = "install", !.args = a, !.force = m, !.copy = m] :
        a \in LongLists(InstallArgs), m \in BOOLEAN }
    \cup { [NoOptions EXCEPT !.name = "install", !.args = a, !.copy = m, !.move = m,
                             !.noExt = n, !.rename = r, !.bad = b] :
        a \in SeqsUpTo({UsrF}, MaxArgs), m \in BOOLEAN, n \in BOOLEAN,
        r \in {Empty, NameX}, b \in BOOLEAN }

MatchArgs == {NameF, NameG, UsrF, BinGDot, NameX}

RemoveOpts ==
    { [NoOptions EXCEPT !.name = "remove", !.args = a, !.showTarget = TRUE,
                        !.directOnly = d[1], !.targetOnly = d[2], !.ignoreNoMatch = q] :
        a \in ShortLists(MatchArgs), d \in BOOLEAN \X BOOLEAN, q \in BOOLEAN }
    \cup { [NoOptions EXCEPT !.name = "remove", !.args = a, !.showTarget = TRUE,
                             !.targetOnly = t] :
        a \in LongLists(MatchArgs), t \in BOOLEAN }

ListOpts ==
    { [NoOptions EXCEPT !.name = "list", !.args = a, !.showPath = l, !.showTarget = l,
                        !.directOnly = d[1], !.targetOnly = d[2], !.ignoreNoMatch = q,
                        !.bad = b] :
        a \in ShortLists({NameF, UsrF}), l \in BOOLEAN, d \in BOOLEAN \X BOOLEAN,
        q \in BOOLEAN, b \in BOOLEAN }
    \cup { [NoOptions EXCEPT !.name = "list", !.args = a, !.showTarget = TRUE] :
        a \in LongLists({NameF, UsrF}) }

NoArgOpts(name) ==
    { [NoOptions EXCEPT !.name = name, !.args = a, !.bad = b] :
        a \in SeqsUpTo({NameF}, 1), b \in BOOLEAN }

Init == \E f \in FileSystems(MainOpt), wd \in MainWds : Start(f, Env(wd, BinDir))

Next ==
    \/ \E o \in InstallOpts : StartInstall(o)
    \/ InstallArg
    \/ \E o \in ListOpts : StartList(o)
    \/ \E o \in RemoveOpts : StartRemove(o)
    \/ PerformArg
    \/ \E o \in NoArgOpts("prune") : Prune(o)
    \/ \E o \in NoArgOpts("doctor") : Doctor(o)
    \/ \E o \in NoArgOpts("path") : Path(o)
    \/ \E o \in NoArgOpts("help"), t \in {"", "install", "unknown"} : Help(o, t)
    \/ \E o \in NoArgOpts("") \cup NoArgOpts("unknown") : Unrecognized(o)
    \/ Exit

Spec == Init /\ [][Next]_vars

(***************************************************************************)
(* SpecTwice: two processes one after the other, install and list, on a    *)
(* directory where the program f may already be installed.                 *)
(***************************************************************************)
TwiceOpt ==
    (BinF :> {NoNode, LinkNode(RelUsrF)})
    @@ (BinG :> {NoNode, LinkNode(RelUsrF), LinkNode(RelF)})
    @@ (UsrF :> {FileNode(Data1, Perm755), FileNode(Data1, Perm775)})

TwiceWds == {Root, BinDir, Usr}

TwiceInstallOpts ==
    { [NoOptions EXCEPT !.name = "install", !.args = << a >>, !.force = f, !.copy = c] :
        a \in {UsrF, NameF}, f \in BOOLEAN, c \in BOOLEAN }

TwiceListOpts ==
    { [NoOptions EXCEPT !.name = "list", !.args = << NameF >>, !.showTarget = TRUE,
                        !.directOnly = d[1], !.targetOnly = d[2]] :
        d \in {<<FALSE, FALSE>>, <<TRUE, FALSE>>, <<FALSE, TRUE>>} }

InitTwice ==
    \E f \in FileSystems(TwiceOpt), wd \in TwiceWds, xdg \in {BinDir, BinSlash} :
        Start(f, Env(wd, xdg))

NextTwice ==
    \/ \E o \in TwiceInstallOpts : StartInstall(o)
    \/ InstallArg
    \/ \E o \in TwiceListOpts : StartList(o)
    \/ PerformArg
    \/ Exit
    \/ \E wd \in TwiceWds : NewProcess(wd)

SpecTwice == InitTwice /\ [][NextTwice]_vars

(***************************************************************************)
(* SpecDir: one process of prune, doctor or list on a directory of up to   *)
(* two programs and a hidden file, of every kind.                          *)
(***************************************************************************)
DirEntryNodes ==
    {NoNode, LinkNode(RelUsrF), LinkNode(UsrF), LinkNode(RelUsrX), LinkNode(UsrX),
     LinkNode(RelUsrG), LinkNode(NameA), FileNode(Data1, Perm755),
     FileNode(Data1, Perm644), DirNode}

DirOpt ==
    (BinA :> DirEntryNodes)
    @@ (BinC :> DirEntryNodes)
    @@ (BinHidden :> {NoNode, LinkNode(RelUsrX), FileNode(Data1, Perm644), DirNode})
    @@ (UsrF :> {FileNode(Data1, Perm755)})
    @@ (UsrG :> {FileNode(Data1, Perm644)})

DirListOpts ==
    { [NoOptions EXCEPT !.name = "list", !.showPath = l, !.showTarget = l] :
        l \in BOOLEAN }

InitDir == \E f \in FileSystems(DirOpt) : Start(f, Env(Root, BinDir))

NextDir ==
    \/ \E o \in NoArgOpts("prune") : Prune(o)
    \/ \E o \in NoArgOpts("doctor") : Doctor(o)
    \/ \E o \in DirListOpts : StartList(o)
    \/ Exit

SpecDir == InitDir /\ [][NextDir]_vars

(***************************************************************************)
(* SpecPlace: one install of /u/f, in every mode, with and without force,  *)
(* onto every kind of destination, from every kind of source.              *)
(***************************************************************************)
PlaceOpt ==
    (BinF :> {NoNode, LinkNode(RelUsrF), LinkNode(UsrF), FileNode(Data1, Perm755),
              FileNode(Data2, Perm755), FileNode(Data3, Perm755),
              FileNode(Data1, Perm644), DirNode})
    @@ (UsrF :> {FileNode(Data1, Perm755), FileNode(Data1, Perm775),
                 FileNode(Data1, Perm655), LinkNode(NameG)})
    @@ (UsrG :> {FileNode(Data1, Perm755)})

PlaceUmasks == {Umask022, Umask077}

PlaceOpts ==
    { [NoOptions EXCEPT !.name = "install", !.args = << UsrF >>, !.force = f,
                        !.copy = m[1], !.move = m[2]] :
        f \in BOOLEAN, m \in {<<FALSE, FALSE>>, <<TRUE, FALSE>>, <<FALSE, TRUE>>} }

InitPlace ==
    \E f \in FileSystems(PlaceOpt), u \in PlaceUmasks :
        Start(f, [Env(Root, BinDir) EXCEPT !.umask = u])

NextPlace ==
    \/ \E o \in PlaceOpts : StartInstall(o)
    \/ InstallArg
    \/ Exit

SpecPlace == InitPlace /\ [][NextPlace]_vars

(***************************************************************************)
(* SpecMatch: one list or remove with arguments, quiet or not, on entries  *)
(* whose target may be impossible to examine (a link to itself), while     *)
(* another process may remove entries of the managed directory between     *)
(* the scan of newLsRmCommand and the steps of perform.                    *)
(***************************************************************************)
MatchOpt ==
    (BinA :> {NoNode, LinkNode(NameA), LinkNode(RelUsrF), LinkNode(RelUsrX),
              FileNode(Data1, Perm755)})
    @@ (BinC :> {NoNode, DirNode, LinkNode(RelUsrF), FileNode(Data2, Perm755)})
    @@ (UsrF :> {FileNode(Data1, Perm755)})

MatchOpts ==
    { [NoOptions EXCEPT !.name = n, !.args = a, !.showTarget = TRUE,
                        !.ignoreNoMatch = q] :
        n \in {"list", "remove"},
        a \in SeqsUpTo({NameA, NameC, NameX, UsrF}, MaxArgs) \ { <<>> },
        q \in BOOLEAN }

\* Another process removes entry p of the managed directory while this one
\* is in perform.
ExternalRemove(p) ==
    /\ pc = "perform"
    /\ p \in DOMAIN fs
    /\ fs' = Remove(fs, env.wd, p).fs
    /\ UNCHANGED <<env, raw, opts, value, pc, cmd, idx, failed, binDir, errs, out, acts,
                   reg, seen, found,
                   exitCode, runs, prev, fs0>>

InitMatch == \E f \in FileSystems(MatchOpt) : Start(f, Env(Root, BinDir))

NextMatch ==
    \/ \E o \in MatchOpts : o.name = "list" /\ StartList(o)
    \/ \E o \in MatchOpts : o.name = "remove" /\ StartRemove(o)
    \/ PerformArg
    \/ \E p \in {BinA, BinC} : ExternalRemove(p)
    \/ Exit

SpecMatch == InitMatch /\ [][NextMatch]_vars

(***************************************************************************)
(* SpecBin: one command, with XDG_BIN_HOME set to the managed directory,   *)
(* to a directory that does not exist, to a relative path, or unset, and   *)
(* the default directory under the home directory present or not.          *)
(***************************************************************************)
HomeLocal == Join(Home, DotLocal)
HomeBin == Join(HomeLocal, BinName)
NoDir == <<"/", "m">>

BinOpt ==
    (Home :> {DirNode})
    @@ (HomeLocal :> {DirNode})
    @@ (HomeBin :> {NoNode, DirNode})
    @@ (BinF :> {NoNode, LinkNode(RelUsrF), LinkNode(RelUsrX)})
    @@ (UsrF :> {FileNode(Data1, Perm755)})

BinEnvs ==
    { [Env(wd, x) EXCEPT !.home = h] :
        wd \in {Root, Usr}, x \in {BinDir, NoDir, BinName, Empty}, h \in {Home, Empty} }

BinInstallOpts ==
    { [NoOptions EXCEPT !.name = "install", !.args = a, !.force = f,
                        !.copy = m[1], !.move = m[2]] :
        a \in SeqsUpTo({UsrF, UsrX}, MaxArgs) \ { <<>> }, f \in BOOLEAN,
        m \in {<<FALSE, FALSE>>, <<TRUE, FALSE>>, <<FALSE, TRUE>>} }

BinListOpts ==
    { [NoOptions EXCEPT !.name = "list", !.args = a, !.showTarget = l] :
        a \in ShortLists({NameF}), l \in BOOLEAN }

BinRemoveOpts ==
    { [NoOptions EXCEPT !.name = "remove", !.args = a, !.showTarget = TRUE] :
        a \in ShortLists({NameF}) \ { <<>> } }

InitBin == \E f \in FileSystems(BinOpt), e \in BinEnvs : Start(f, e)

NextBin ==
    \/ \E o \in BinInstallOpts : StartInstall(o)
    \/ InstallArg
    \/ \E o \in BinListOpts : StartList(o)
    \/ \E o \in BinRemoveOpts : StartRemove(o)
    \/ PerformArg
    \/ \E o \in NoArgOpts("prune") : Prune(o)
    \/ \E o \in NoArgOpts("doctor") : Doctor(o)
    \/ \E o \in NoArgOpts("path") : Path(o)
    \/ Exit

SpecBin == InitBin /\ [][NextBin]_vars

(***************************************************************************)
(* SpecInside: installs of sources inside and outside the managed          *)
(* directory, from inside and outside it, in every mode.                   *)
(***************************************************************************)
InsideOpt ==
    (BinF :> {NoNode, FileNode(Data1, Perm755), LinkNode(RelUsrF)})
    @@ (BinG :> {NoNode, FileNode(Data2, Perm755)})
    @@ (UsrF :> {FileNode(Data1, Perm755)})

InsideOpts ==
    { [NoOptions EXCEPT !.name = "install", !.args = a, !.force = f,
                        !.copy = m[1], !.move = m[2], !.rename = r] :
        a \in SeqsUpTo({BinF, NameF, UsrF}, MaxArgs) \ { <<>> }, f \in BOOLEAN,
        m \in {<<FALSE, FALSE>>, <<TRUE, FALSE>>, <<FALSE, TRUE>>},
        r \in {Empty, NameG} }

InitInside ==
    \E f \in FileSystems(InsideOpt), wd \in {Root, BinDir} : Start(f, Env(wd, BinDir))

NextInside ==
    \/ \E o \in InsideOpts : StartInstall(o)
    \/ InstallArg
    \/ Exit

SpecInside == InitInside /\ [][NextInside]_vars

(***************************************************************************)
(* SpecOptions: one process from its arguments, through parseOptions, main *)
(* and the options of install, to the end of the command.                  *)
(***************************************************************************)
\* The number of arguments after the name of the command.
MaxRaw == 4

ShortRename == <<"-", "r">>

LongRename == DashDash \o RenameFlag

ShortForce == <<"-", "f">>

ShortX == <<"-", "x">>

RawArgs == {ShortRename, LongRename, ShortForce, ShortX, DashDash, NameF, NameG}

\* The command lines: install with flags and arguments in any order, and
\* the short ones that name no command or one the program does not know.
RawLines ==
    { <<InstallName>> \o t : t \in SeqsUpTo(RawArgs, MaxRaw) }
    \cup ShortLists(RawArgs \cup {InstallName})

OptionsOpt == (UsrF :> {FileNode(Data1, Perm755)}) @@ (UsrG :> {FileNode(Data2, Perm755)})

InitOptions ==
    \E f \in FileSystems(OptionsOpt), args \in RawLines :
        StartOn(f, Env(Usr, BinDir), args)

NextOptions ==
    \/ Main
    \/ InstallFlags
    \/ InstallRename
    \/ InstallValidate
    \/ InstallArg
    \/ DispatchOther
    \/ Exit

SpecOptions == InitOptions /\ [][NextOptions]_vars

(***************************************************************************)
(* The properties.                                                         *)
(***************************************************************************)

\* The first process installed /u/f by symlink with success, and the
\* second has matched the name f with the default modes.
ListedAfterInstall ==
    /\ runs = 2
    /\ prev.cmd.name = "install" /\ ~prev.cmd.copy /\ prev.exitCode = 0
    /\ Abs(prev.wd, prev.cmd.args[1]) = UsrF
    /\ cmd.name = "list" /\ ~cmd.directOnly /\ ~cmd.targetOnly
    /\ idx = 2
    /\ pc \in {"return", "done"}

\* C1, as stated: after a successful symlink-mode install of an executable E
\* outside the managed directory, find on the basename of E with the default
\* modes returns exactly one match, and its target is the absolute path of
\* E, whatever the working directory.
ExactlyOneMatch ==
    ListedAfterInstall => Len(found) = 1 /\ found[1].absTarget = UsrF

\* C1, amended: find returns the match (basename, absolute path of E)
\* first, and every match under that name has that target; the action is
\* applied once to that name; and find returns exactly one match when the
\* basename resolved against the working directory is neither the path of
\* an entry nor the target of one.
FirstMatchIsInstalled ==
    ListedAfterInstall =>
        /\ Len(found) >= 1
        /\ found[1] = Match(NameF, UsrF)
        /\ \A i \in 1..Len(found) : found[i].name = NameF => found[i].absTarget = UsrF
        /\ Cardinality({i \in 1..Len(acts) : acts[i].name = NameF}) = 1
        /\ (Abs(env.wd, NameF) \notin
                DOMAIN reg.pathToAbsTarget \cup DOMAIN reg.absTargetToNames
            => Len(found) = 1)

\* f was installed from /u and is matched, alone, from /.
ListedFromElsewhere ==
    /\ ListedAfterInstall
    /\ prev.wd = Usr /\ prev.cmd.args = << NameF >>
    /\ env.wd = Root
    /\ found = << Match(NameF, UsrF) >>
    /\ Len(out) = 1

\* The second process has installed, in the same mode and without force,
\* the source the first installed with success.
InstalledTwice ==
    /\ runs = 2
    /\ prev.cmd.name = "install" /\ ~prev.cmd.force /\ prev.exitCode = 0
    /\ cmd.name = "install" /\ ~cmd.force /\ cmd.copy = prev.cmd.copy
    /\ Abs(env.wd, cmd.args[1]) = Abs(prev.wd, prev.cmd.args[1])
    /\ idx = 2
    /\ pc \in {"return", "done"}

\* C2: the second of two installs of one source without force, in symlink
\* mode or in copy mode, reports "already installed", records no error and
\* leaves the file system as the first left it.
SecondInstallIsNoOp ==
    InstalledTwice =>
        /\ errs = <<>>
        /\ fs = fs0
        /\ Len(out) = 1 /\ out[1].note = AlreadyInstalled

\* A step of the loop of install in symlink mode that records no error.
SymlinkInstalled ==
    /\ pc = "install" /\ idx' = idx + 1
    /\ ~cmd.copy /\ ~cmd.move
    /\ errs' = errs

\* The maps newLsRmCommand builds from file system f.
RegistryOf(f) ==
    newLsRmCommand([fs |-> f, failed |-> FALSE, binDir |-> Empty, errs |-> <<>>,
                    out |-> <<>>, acts |-> <<>>, exited |-> FALSE], env).reg

InstalledName == installName(Abs(env.wd, cmd.args[idx]), cmd.noExt, cmd.rename)

\* C3: after a successful symlink-mode install, the link text of the entry
\* resolved against the managed directory by ensureAbs is the absolute path
\* of the source, and that is the target of the entry in the registry.
SymlinkRoundTrip ==
    [][SymlinkInstalled =>
        /\ Readlink(fs', env.wd, Join(binDir', InstalledName)).err = "ok"
        /\ ~IsAbs(Readlink(fs', env.wd, Join(binDir', InstalledName)).text)
        /\ ensureAbs(binDir', Readlink(fs', env.wd, Join(binDir', InstalledName)).text)
            = Abs(env.wd, cmd.args[idx])
        /\ InstalledName \in DOMAIN RegistryOf(fs').nameToAbsTarget
        /\ RegistryOf(fs').nameToAbsTarget[InstalledName] = Abs(env.wd, cmd.args[idx])]_vars

\* g was installed from /u under a relative name, and the link is new.
RelativeSourceLinked ==
    /\ cmd.name = "install" /\ ~cmd.copy /\ ~cmd.move
    /\ cmd.args = << NameG >> /\ env.wd = Usr
    /\ pc = "return" /\ errs = <<>>
    /\ BinG \notin DOMAIN fs0
    /\ Readlink(fs, env.wd, BinG) = [err |-> "ok", text |-> RelUsrG]

\* C4: over one list or remove, the action is applied at most once to each
\* entry of the registry, however many arguments and rules match it: what
\* it is applied to are entries, no two the same.
EachEntryActedOnce ==
    cmd.name \in {"list", "remove"} =>
        /\ \A i \in 1..Len(acts) : acts[i].name \in DOMAIN reg.nameToAbsTarget
        /\ \A i, j \in 1..Len(acts) : i # j => acts[i].name # acts[j].name
\* What os.ReadDir gave the process for the managed directory.
ScannedFiles == ReadDir(fs0, env.wd, BinDir).files

PathOf(file) == Join(BinDir, file.name)

StatAtScan(file) == Stat(fs0, env.wd, PathOf(file))

LinkText(file) == Readlink(fs0, env.wd, PathOf(file)).text

PruneRan ==
    cmd.name = "prune" /\ ~cmd.bad /\ cmd.args = <<>> /\ pc \in {"return", "done"}

BrokenAtScan(file) ==
    ~skip(file) /\ isSymlink(file) /\ IsNotExist(StatAtScan(file).err)

\* C5: after prune, every non-hidden symlink whose target was missing when
\* the directory was scanned is gone and every other entry is as it was.
PruneRemovesAllAndOnlyBroken ==
    PruneRan =>
        \A i \in 1..Len(ScannedFiles) :
            IF BrokenAtScan(ScannedFiles[i])
            THEN PathOf(ScannedFiles[i]) \notin DOMAIN fs
            ELSE /\ PathOf(ScannedFiles[i]) \in DOMAIN fs
                 /\ fs[PathOf(ScannedFiles[i])] = fs0[PathOf(ScannedFiles[i])]

DoctorRan ==
    cmd.name = "doctor" /\ ~cmd.bad /\ cmd.args = <<>> /\ pc \in {"return", "done"}

\* The rules of doctor an entry breaks.
Violations(file) ==
    (IF isSymlink(file) /\ IsAbs(LinkText(file)) THEN {"absolute"} ELSE {})
    \cup (IF isSymlink(file) /\ IsNotExist(StatAtScan(file).err) THEN {"missing"} ELSE {})
    \cup (IF StatAtScan(file).err = "ok" /\ ~isExecutable(Mode(StatAtScan(file).node))
          THEN {"not executable"} ELSE {})

ValidLink(file) ==
    /\ ~skip(file) /\ isSymlink(file)
    /\ ~IsAbs(LinkText(file))
    /\ StatAtScan(file).err = "ok"
    /\ isExecutable(Mode(StatAtScan(file).node))

TargetOf(file) == ensureAbs(BinDir, LinkText(file))

ErrorsAbout(p) == {i \in 1..Len(errs) : errs[i][2] = p}

\* C6: doctor records no error, and the exit status is 0, on a directory of
\* relative symlinks to distinct existing executables only, and records
\* exactly one error for each entry that breaks exactly one of the rules:
\* the link is relative, the target exists, the file is executable.
DoctorCountsViolations ==
    DoctorRan =>
        /\ ( /\ \A i \in 1..Len(ScannedFiles) : ValidLink(ScannedFiles[i])
             /\ \A i, j \in 1..Len(ScannedFiles) :
                    i # j => TargetOf(ScannedFiles[i]) # TargetOf(ScannedFiles[j])
             => errs = <<>> /\ (pc = "done" => exitCode = 0) )
        /\ \A i \in 1..Len(ScannedFiles) :
               ~skip(ScannedFiles[i]) /\ Cardinality(Violations(ScannedFiles[i])) = 1
               => Cardinality(ErrorsAbout(PathOf(ScannedFiles[i]))) = 1

\* a is a valid link, c an absolute link to an executable: one error, for c.
OneAbsoluteLinkReported ==
    /\ DoctorRan /\ pc = "done"
    /\ BinA \in DOMAIN fs0 /\ fs0[BinA] = LinkNode(RelUsrF)
    /\ BinC \in DOMAIN fs0 /\ fs0[BinC] = LinkNode(UsrF)
    /\ errs = << <<"symlink is absolute", BinC>> >>
    /\ exitCode = 1

\* C7: when two symlinks resolve to one absolute target, doctor records
\* an error for the later of the two in scan order, and the command fails.
DoctorReportsDuplicateTargets ==
    DoctorRan =>
        \A i, j \in 1..Len(ScannedFiles) :
            /\ i < j
            /\ ~skip(ScannedFiles[i]) /\ isSymlink(ScannedFiles[i])
            /\ ~skip(ScannedFiles[j]) /\ isSymlink(ScannedFiles[j])
            /\ TargetOf(ScannedFiles[i]) = TargetOf(ScannedFiles[j])
            => ErrorsAbout(PathOf(ScannedFiles[j])) # {} /\ failed

\* The world of a process that has done nothing yet, on the file system as
\* it is now.
Alone ==
    [fs |-> fs, failed |-> FALSE, binDir |-> Empty, errs |-> <<>>, out |-> <<>>,
     acts |-> <<>>, exited |-> FALSE]

InstalledAlone ==
    installArg(Alone, env, cmd.args[idx], cmd.force, cmd.copy, cmd.move, cmd.noExt,
               cmd.rename)

\* A step of the loop of install does to the file system what it would do
\* if nothing had been processed before it, adds the errors and the lines
\* it would record then, and goes on to the next argument.
InstallsAsIfAlone ==
    pc = "install" /\ idx' # idx =>
        /\ idx <= Len(cmd.args) /\ idx' = idx + 1
        /\ fs' = InstalledAlone.fs
        /\ errs' = errs \o InstalledAlone.errs
        /\ out' = out \o InstalledAlone.out
        /\ pc' = IF idx = Len(cmd.args) THEN "return" ELSE "install"

\* install returns after the last argument, and the status is failure if
\* an error was recorded.
InstallEnds ==
    /\ cmd.name = "install" /\ pc = "return" => idx = Len(cmd.args) + 1
    /\ cmd.name = "install" /\ pc = "done" /\ errs # <<>> => exitCode = 1

\* C8: an error for one argument does not abort install: every argument is
\* processed in order, each as if it were the only one whatever errors came
\* before, and the command ends with status 1 if any error was recorded.
InstallContinuesAfterError == [][InstallsAsIfAlone]_vars /\ []InstallEnds

\* The first argument was refused, the second was installed, and the
\* process has failed.
SecondInstalledAfterFirstFailed ==
    /\ cmd.name = "install" /\ Len(cmd.args) = 2 /\ pc = "done"
    /\ Len(errs) = 1 /\ errs[1][2] = cmd.args[1]
    /\ cmd.args[2] = UsrF /\ BinF \notin DOMAIN fs0 /\ BinF \in DOMAIN fs
    /\ exitCode = 1

\* The flag follows the errors, and the exit status the flag.
StatusFollowsErrors ==
    /\ failed <=> errs # <<>>
    /\ pc = "done" => exitCode = (IF errs # <<>> THEN 1 ELSE 0)
    /\ pc # "done" => exitCode = -1

FailedChecks ==
    (IF Stat(fs, env.wd, cmd.args[idx]).err = "ok" THEN <<>>
     ELSE IF IsNotExist(Stat(fs, env.wd, cmd.args[idx]).err) THEN << "file not found" >>
     ELSE << Stat(fs, env.wd, cmd.args[idx]).err >>)
    \o (IF Stat(fs, env.wd, cmd.args[idx]).node.kind = "dir"
        THEN << "is a directory" >> ELSE <<>>)
    \o (IF HasPrefix(Base(cmd.args[idx]), Dot)
        THEN << "must not start with '.'" >> ELSE <<>>)
    \o (IF /\ Stat(fs, env.wd, cmd.args[idx]).err = "ok"
           /\ ~isExecutable(Mode(Stat(fs, env.wd, cmd.args[idx]).node))
        THEN << "not an executable" >> ELSE <<>>)

\* C10: the checks of install are made in that order; an argument that
\* fails one records the error of the first check it fails and nothing
\* else, and nothing is changed in the file system for it, force or not.
FirstFailedCheckOnly ==
    [][pc = "install" /\ idx' # idx /\ FailedChecks # <<>> =>
        /\ errs' = Append(errs, << Head(FailedChecks), cmd.args[idx] >>)
        /\ out' = out
        /\ fs' = fs]_vars

\* install --force of the directory /u/., whose name starts with '.', onto
\* an existing program: one error, about the directory, and nothing changed.
DirectoryRefusedFirst ==
    /\ cmd.name = "install" /\ cmd.force /\ cmd.args = << UsrDot >>
    /\ pc = "done"
    /\ errs = << <<"is a directory", UsrDot>> >>
    /\ BinF \in DOMAIN fs /\ fs = fs0
\* The destination of the next argument of install, and what is there.
Destination == Join(binDir', InstalledName)

DestinationNow == Lstat(fs, env.wd, Destination)

\* The next step of install places a source that passes the checks, without
\* force, where something already is.
PlacesOnExisting ==
    /\ pc = "install" /\ idx' = idx + 1
    /\ ~cmd.force
    /\ FailedChecks = <<>>
    /\ DestinationNow.err = "ok"

\* C11: symlink mode without force onto an existing destination: a symlink
\* whose text is the relative target computed for the source is a no-op
\* reported as already installed; anything else is a conflict error, and the
\* destination is left as it was.
SymlinkOntoExisting ==
    [][PlacesOnExisting /\ ~cmd.copy /\ ~cmd.move =>
        /\ fs' = fs
        /\ IF /\ DestinationNow.node.kind = "link"
              /\ DestinationNow.node.text
                    = Rel(binDir', Abs(env.wd, cmd.args[idx])).path
           THEN /\ errs' = errs
                /\ out' = Append(out, [verb |-> "Symlinking", name |-> InstalledName,
                                       target |-> Abs(env.wd, cmd.args[idx]),
                                       note |-> AlreadyInstalled])
           ELSE errs' = Append(errs, << "exists", cmd.args[idx] >>)]_vars

\* /b/f is an absolute link to /u/f, and installing /u/f is a conflict.
AbsoluteLinkConflicts ==
    /\ cmd.name = "install" /\ ~cmd.force /\ ~cmd.copy /\ ~cmd.move
    /\ cmd.args = << UsrF >> /\ pc = "done"
    /\ BinF \in DOMAIN fs0 /\ fs0[BinF] = LinkNode(UsrF)
    /\ errs = << <<"exists", UsrF>> >>
    /\ fs = fs0
\* The source of the next argument of install: the file the argument
\* resolves to.
SourceNow == Stat(fs, env.wd, cmd.args[idx])

\* The destination differs from the source in size, mode bits or content.
DiffersFromSource ==
    \/ Size(DestinationNow.node) # Size(SourceNow.node)
    \/ Mode(DestinationNow.node) # Mode(SourceNow.node)
    \/ Cmp(fs, env.wd, Destination, Abs(env.wd, cmd.args[idx])) # 0

\* A step of install in copy mode, without force, of a source that passes
\* the checks.
CopiesSource ==
    /\ pc = "install" /\ idx' = idx + 1
    /\ cmd.copy /\ ~cmd.force
    /\ FailedChecks = <<>>

\* C12: copy mode without force: onto no destination, the source is copied:
\* the destination is a file with the content of the source and an execute
\* bit, and nothing else changes; onto a destination that differs from the
\* source in size, mode bits or content, exactly the conflict error is
\* recorded and nothing changes.
CopyCopiesOrConflicts ==
    [][CopiesSource =>
        /\ IsNotExist(DestinationNow.err) =>
            /\ errs' = errs
            /\ Destination \in DOMAIN fs'
            /\ fs'[Destination].kind = "file"
            /\ fs'[Destination].data = SourceNow.node.data
            /\ isExecutable(Mode(fs'[Destination]))
            /\ \A p \in DOMAIN fs : p \in DOMAIN fs' /\ fs'[p] = fs[p]
        /\ DestinationNow.err = "ok" /\ DiffersFromSource =>
            /\ errs' = Append(errs, << "exists", cmd.args[idx] >>)
            /\ fs' = fs]_vars
\* Where the source of the next argument of install is, links not followed.
SourceEntry == Lstat(fs, env.wd, cmd.args[idx])

\* A step of install in move mode, without force, of a source that passes
\* the checks, onto an existing destination.
MovesOntoExisting == PlacesOnExisting /\ cmd.move

\* C13: move mode onto an existing destination of the same size, mode and
\* content reports already installed and still moves the source: the source
\* path is gone, the destination holds what was there, nothing else changes
\* and no error is recorded; onto a destination that differs, the conflict
\* error is recorded and nothing is moved.
MoveOntoExisting ==
    [][MovesOntoExisting =>
        IF DiffersFromSource
        THEN /\ errs' = Append(errs, << "exists", cmd.args[idx] >>)
             /\ fs' = fs
        ELSE /\ errs' = errs
             /\ out' = Append(out, [verb |-> "Moving", name |-> InstalledName,
                                    target |-> Abs(env.wd, cmd.args[idx]),
                                    note |-> AlreadyInstalled])
             /\ SourceEntry.path \notin DOMAIN fs'
             /\ fs'[Destination] = fs[SourceEntry.path]
             /\ DOMAIN fs' = DOMAIN fs \ {SourceEntry.path}
             /\ \A p \in DOMAIN fs' \ {Destination} : fs'[p] = fs[p]]_vars

\* /b/f was a copy of /u/f; install --move /u/f said already installed and
\* took /u/f away.
MovedOverSameContent ==
    /\ cmd.name = "install" /\ cmd.move /\ ~cmd.force /\ pc = "done"
    /\ BinF \in DOMAIN fs0
    /\ fs0[BinF] = FileNode(Data1, Perm755) /\ fs0[UsrF] = FileNode(Data1, Perm755)
    /\ errs = <<>> /\ exitCode = 0
    /\ Len(out) = 1 /\ out[1].note = AlreadyInstalled
    /\ UsrF \notin DOMAIN fs /\ fs[BinF] = fs0[UsrF]
\* C14: move mode rejects a source that is itself a symlink: the step
\* records an error and leaves the link where it was, whether or not the
\* destination exists.
MoveRejectsSymlinkSource ==
    [][/\ pc = "install" /\ idx' = idx + 1
       /\ cmd.move
       /\ SourceEntry.err = "ok" /\ SourceEntry.node.kind = "link"
       => /\ Len(errs') = Len(errs) + 1
          /\ SourceEntry.path \in DOMAIN fs'
          /\ fs'[SourceEntry.path] = fs[SourceEntry.path]]_vars
\* A step of install with force, of a source that passes the checks, onto
\* an existing file or symlink.
ForcesOntoExisting ==
    /\ pc = "install" /\ idx' = idx + 1
    /\ cmd.force
    /\ FailedChecks = <<>>
    /\ DestinationNow.err = "ok"
    /\ DestinationNow.node.kind \in {"file", "link"}

\* What a fresh install of the source puts at the destination.
FreshEntry ==
    IF cmd.copy THEN FileNode(SourceNow.node.data, SourceNow.node.perm \ env.umask)
    ELSE IF cmd.move THEN fs[SourceEntry.path]
    ELSE LinkNode(Rel(binDir', Abs(env.wd, cmd.args[idx])).path)

\* The step ended as a fresh install: no error, the plain line printed, the
\* new entry at the destination, the source gone in move mode, and nothing
\* else changed.
FreshlyInstalled ==
    /\ errs' = errs
    /\ Len(out') = Len(out) + 1 /\ out'[Len(out')].note = ""
    /\ Destination \in DOMAIN fs'
    /\ fs'[Destination] = FreshEntry
    /\ \A p \in DOMAIN fs \ {Destination} :
           IF cmd.move /\ p = SourceEntry.path THEN p \notin DOMAIN fs'
           ELSE p \in DOMAIN fs' /\ fs'[p] = fs[p]

\* C15, as stated: with force, an install of a source that passes the
\* checks onto an existing file or symlink removes it and ends as a fresh
\* install, in every mode.
ForceInstallsFresh == [][ForcesOntoExisting => FreshlyInstalled]_vars

\* C15, amended: the same, except in move mode for a source that is itself
\* a symlink, which move rejects.
ForceInstallsFreshUnlessLinkMoved ==
    [][/\ ForcesOntoExisting
       /\ ~(cmd.move /\ SourceEntry.node.kind = "link")
       => FreshlyInstalled]_vars

\* install --force --copy /u/f replaced another program at /b/f.
ForcedCopyReplaced ==
    /\ cmd.name = "install" /\ cmd.force /\ cmd.copy /\ pc = "done"
    /\ BinF \in DOMAIN fs0 /\ fs0[BinF] = FileNode(Data2, Perm755)
    /\ fs0[UsrF] = FileNode(Data1, Perm755)
    /\ errs = <<>> /\ exitCode = 0
    /\ fs[BinF] = FileNode(Data1, Perm755 \ env.umask)
\* The argument perform is about to match, and its absolute path.
Arg == cmd.args[idx]
AbsArg == Abs(env.wd, Arg)

NameRule == ~cmd.targetOnly /\ Arg \in DOMAIN reg.nameToAbsTarget
PathRule == ~cmd.targetOnly /\ AbsArg \in DOMAIN reg.pathToAbsTarget
TargetNames ==
    IF ~cmd.directOnly /\ AbsArg \in DOMAIN reg.absTargetToNames
    THEN reg.absTargetToNames[AbsArg] ELSE <<>>

\* The number of matches the name and path rules give.
DirectCount == (IF NameRule THEN 1 ELSE 0) + (IF PathRule THEN 1 ELSE 0)

\* C16: find returns the name-rule match if any, then the path-rule match
\* if any, then one match per name of the target index, and nothing else;
\* direct-only leaves out the target rule and target-only the other two.
FindReturnsRulesInOrder ==
    [][pc = "perform" /\ idx' = idx + 1 =>
        /\ Len(found') = DirectCount + Len(TargetNames)
        /\ NameRule => found'[1] = Match(Arg, reg.nameToAbsTarget[Arg])
        /\ PathRule => found'[DirectCount]
                        = Match(Base(Arg), reg.pathToAbsTarget[AbsArg])
        /\ \A k \in 1..Len(TargetNames) :
               found'[DirectCount + k] = Match(TargetNames[k], AbsArg)
        /\ cmd.directOnly =>
               Len(found') = DirectCount
        /\ cmd.targetOnly =>
               /\ DirectCount = 0
               /\ \A k \in 1..Len(found') : found'[k].absTarget = AbsArg]_vars

\* One argument matched by the name rule and then by the path rule.
MatchedByNameAndPath ==
    /\ pc \in {"perform", "return"} /\ idx > 1
    /\ cmd.args[idx - 1] \in DOMAIN reg.nameToAbsTarget
    /\ Abs(env.wd, cmd.args[idx - 1]) \in DOMAIN reg.pathToAbsTarget
    /\ Abs(env.wd, cmd.args[idx - 1]) \notin DOMAIN reg.absTargetToNames
    /\ Len(found) = 2
    /\ found[1].name = found[2].name
\* A step of perform, and what it added to errs and acts.
Performs == pc = "perform" /\ idx' = idx + 1
NewErrors == { errs'[i] : i \in Len(errs) + 1..Len(errs') }
NewActs == { acts'[i] : i \in Len(acts) + 1..Len(acts') }

\* The target of match m cannot be examined, for another reason than that
\* it is missing.
StatFails(m) ==
    /\ cmd.showTarget /\ m.absTarget # Empty
    /\ Stat(fs, env.wd, m.absTarget).err # "ok"
    /\ ~IsNotExist(Stat(fs, env.wd, m.absTarget).err)

\* The entry of match m cannot be removed.
RemoveFails(m) == Remove(fs, env.wd, Join(binDir, m.name)).err # "ok"

\* C17: an argument without a match records one "no match found" error for
\* it, changes nothing else and lets perform go on; in quiet mode it records
\* nothing. Quiet or not, a matched entry whose target cannot be examined
\* or whose removal failed has an error recorded, and the command fails.
NoMatchReportedUnlessQuiet ==
    [][Performs =>
        /\ Len(found') = 0 =>
             /\ errs' = IF cmd.ignoreNoMatch THEN errs
                        ELSE Append(errs, <<"no match found", Arg>>)
             /\ fs' = fs /\ out' = out /\ acts' = acts
        /\ pc' = IF idx = Len(cmd.args) THEN "return" ELSE "perform"
        /\ \A m \in NewActs :
             /\ StatFails(m) =>
                    <<Stat(fs, env.wd, m.absTarget).err, m.name>> \in NewErrors
             /\ cmd.name = "remove" /\ RemoveFails(m) =>
                    <<Remove(fs, env.wd, Join(binDir, m.name)).err, m.name>> \in NewErrors
        /\ NewErrors # {} => failed']_vars

\* A quiet list of x and a: x matched nothing, which was not reported, and
\* the target of a could not be examined, which was.
QuietListFailed ==
    /\ cmd.name = "list" /\ cmd.ignoreNoMatch /\ cmd.args = << NameX, NameA >>
    /\ pc = "done" /\ exitCode = 1
    /\ errs = << <<"ELOOP", NameA>> >>
    /\ fs = fs0
\* The entry of match m is in the registry of this process and is gone
\* from the managed directory: another process removed it after the scan.
RemovedByAnother(m) ==
    /\ m.name \in DOMAIN reg.nameToAbsTarget
    /\ Join(binDir, m.name) \notin DOMAIN fs

\* C20: a step of remove acts on every match not yet seen; for one whose
\* entry another process removed after the scan it records the error of
\* os.Remove and fails the command, and goes on: every other one is
\* removed, and perform continues with the next argument.
StaleEntryIsAnError ==
    [][Performs /\ cmd.name = "remove" =>
        /\ \A k \in 1..Len(found') : found'[k].name \in seen \/ found'[k] \in NewActs
        /\ \A m \in NewActs :
             IF RemovedByAnother(m)
             THEN <<"ENOENT", m.name>> \in NewErrors /\ failed'
             ELSE Join(binDir, m.name) \notin DOMAIN fs'
        /\ pc' = IF idx = Len(cmd.args) THEN "return" ELSE "perform"]_vars

\* remove a c, where another process removed a after the scan: the error
\* for a is recorded, c is removed, the status is 1.
RemovedOtherAfterStale ==
    /\ cmd.name = "remove" /\ cmd.args = << NameA, NameC >>
    /\ pc = "done" /\ exitCode = 1
    /\ errs = << <<"ENOENT", NameA>> >>
    /\ BinA \in DOMAIN fs0 /\ BinC \in DOMAIN fs0
    /\ Len(acts) = 2
    /\ BinC \notin DOMAIN fs
\* A symlink the scan evaluates and os.Stat cannot examine, for another
\* reason than that its target is missing.
Unexaminable(file) ==
    /\ ~skip(file) /\ isSymlink(file)
    /\ StatAtScan(file).err # "ok"
    /\ ~IsNotExist(StatAtScan(file).err)

\* What prune and doctor leave behind when they have evaluated an entry.
PruneEvaluated(file) ==
    BrokenAtScan(file) => PathOf(file) \notin DOMAIN fs

DoctorEvaluated(file) ==
    (file.type = "dir" \/ (~skip(file) /\ Violations(file) # {}))
        => ErrorsAbout(PathOf(file)) # {}

\* Doctor's half of C18: an entry that cannot be examined has its error
\* recorded and every entry after it is evaluated.
DoctorScansPastBadEntry ==
    DoctorRan =>
        \A i \in 1..Len(ScannedFiles) :
            Unexaminable(ScannedFiles[i]) =>
                /\ ErrorsAbout(PathOf(ScannedFiles[i])) # {}
                /\ \A j \in i + 1..Len(ScannedFiles) : DoctorEvaluated(ScannedFiles[j])

\* C18: in prune and in doctor, an entry that cannot be examined has its
\* error recorded and every entry after it in the scan is evaluated.
ScanGoesPastBadEntry ==
    /\ DoctorScansPastBadEntry
    /\ PruneRan =>
        \A i \in 1..Len(ScannedFiles) :
            Unexaminable(ScannedFiles[i]) =>
                /\ ErrorsAbout(ScannedFiles[i].name) # {}
                /\ \A j \in i + 1..Len(ScannedFiles) : PruneEvaluated(ScannedFiles[j])
Hidden(file) == HasPrefix(file.name, Dot)

\* C19, as stated: doctor records an error for every directory and none
\* for any hidden entry, whatever its kind.
DoctorReportsDirsSkipsHidden ==
    DoctorRan =>
        \A i \in 1..Len(ScannedFiles) :
            /\ ScannedFiles[i].type = "dir" => ErrorsAbout(PathOf(ScannedFiles[i])) # {}
            /\ Hidden(ScannedFiles[i]) => ErrorsAbout(PathOf(ScannedFiles[i])) = {}

\* C19, amended: doctor records one error for every directory, hidden or
\* not, and none for any hidden entry that is not a directory.
DoctorReportsDirsSkipsHiddenFiles ==
    DoctorRan =>
        \A i \in 1..Len(ScannedFiles) :
            /\ ScannedFiles[i].type = "dir" =>
                   /\ Cardinality(ErrorsAbout(PathOf(ScannedFiles[i]))) = 1
                   /\ <<"unexpected directory", PathOf(ScannedFiles[i])>>
                          \in { errs[k] : k \in 1..Len(errs) }
            /\ Hidden(ScannedFiles[i]) /\ ScannedFiles[i].type # "dir" =>
                   ErrorsAbout(PathOf(ScannedFiles[i])) = {}

\* Doctor ran on a directory a and a hidden broken link: one error, for a.
HiddenBrokenLinkPassed ==
    /\ DoctorRan /\ pc = "done" /\ exitCode = 1
    /\ BinA \in DOMAIN fs0 /\ fs0[BinA] = DirNode
    /\ BinHidden \in DOMAIN fs0 /\ fs0[BinHidden] = LinkNode(RelUsrX)
    /\ errs = << <<"unexpected directory", BinA>> >>
\* C21: every match find returned names an entry of the registry and
\* carries the target the registry has for that name, whatever the
\* argument and the modes.
EveryMatchIsAnEntry ==
    \A k \in 1..Len(found) :
        /\ found[k].name \in DOMAIN reg.nameToAbsTarget
        /\ found[k].absTarget = reg.nameToAbsTarget[found[k].name]
\* The commands that use the managed directory, and those that scan it.
UsesBin == cmd.name \in {"install", "list", "remove", "prune", "doctor", "path"}
ScansBin == cmd.name \in {"list", "remove", "prune", "doctor"}

\* The process has resolved the managed directory, which did not exist
\* when it started.
MissingDir ==
    /\ pc = "done"
    /\ binDir # Empty /\ IsAbs(binDir)
    /\ binDir \notin DOMAIN fs0

\* C22, as stated: a command that scans or installs into a managed
\* directory that does not exist creates it.
MissingDirCreated ==
    MissingDir /\ (ScansBin \/ cmd.name = "install") =>
        binDir \in DOMAIN fs /\ fs[binDir].kind = "dir"

\* C22, amended: the managed directory is never created. A command that
\* scans a missing one records the failure to read it, does nothing else
\* and exits with status 1; an install into a missing one records an error
\* for every argument, installs nothing and exits with status 1.
MissingDirIsAnError ==
    MissingDir /\ (ScansBin \/ cmd.name = "install") =>
        /\ fs = fs0
        /\ exitCode = 1
        /\ ScansBin => errs = << <<"reading", binDir>> >> /\ out = <<>>
        /\ cmd.name = "install" =>
               /\ Len(errs) = Len(cmd.args)
               /\ \A i \in 1..Len(errs) : errs[i][2] = cmd.args[i]

\* list with XDG_BIN_HOME unset and no .local/bin under the home directory.
ListedMissingHomeBin ==
    /\ cmd.name = "list" /\ ~cmd.bad /\ pc = "done"
    /\ env.xdg = Empty /\ HomeBin \notin DOMAIN fs0
    /\ binDir = HomeBin
    /\ errs = << <<"reading", HomeBin>> >>
    /\ exitCode = 1
RelativeXdg == env.xdg # Empty /\ ~IsAbs(env.xdg)

\* The command line passed validate: no option error, and the number of
\* arguments the command takes.
Validated ==
    /\ ~cmd.bad
    /\ cmd.name \in {"install", "remove"} => Len(cmd.args) >= 1
    /\ cmd.name \in {"prune", "doctor", "path"} => Len(cmd.args) = 0

\* The managed directory, once resolved, is XDG_BIN_HOME if that is set
\* and .local/bin under the home directory if not.
ResolvedFromEnv ==
    binDir # Empty =>
        binDir = IF env.xdg = Empty THEN Join(Join(env.home, DotLocal), BinName)
                 ELSE env.xdg

\* C23, as stated: with XDG_BIN_HOME relative, every command that uses the
\* managed directory fails at once, with status 1 and that error alone,
\* having changed nothing; otherwise the directory is resolved as above.
RelativeDirFailsAtOnce ==
    /\ ResolvedFromEnv
    /\ pc = "done" /\ UsesBin /\ Validated /\ RelativeXdg =>
        /\ exitCode = 1
        /\ fs = fs0 /\ out = <<>>
        /\ errs = << <<"not absolute", env.xdg>> >>

\* The errors of the source checks of newInstallCommand.
SourceErrors ==
    {"file not found", "is a directory", "must not start with '.'", "not an executable",
     "ENOTDIR", "ELOOP"}

\* C23, amended: with XDG_BIN_HOME relative, every command that uses the
\* managed directory exits with status 1 having changed and printed
\* nothing; all but install record that error alone, and install records
\* it at the first argument that passes the source checks, after the errors
\* of the arguments before it, or not at all if none passes.
RelativeDirFails ==
    /\ ResolvedFromEnv
    /\ pc = "done" /\ UsesBin /\ Validated /\ RelativeXdg =>
        /\ exitCode = 1
        /\ fs = fs0 /\ out = <<>>
        /\ cmd.name # "install" => errs = << <<"not absolute", env.xdg>> >>
        /\ cmd.name = "install" =>
             /\ Len(errs) >= 1 /\ Len(errs) <= Len(cmd.args)
             /\ \A i \in 1..Len(errs) - 1 :
                    errs[i][1] \in SourceErrors /\ errs[i][2] = cmd.args[i]
             /\ \/ errs[Len(errs)] = <<"not absolute", env.xdg>>
                \/ /\ Len(errs) = Len(cmd.args)
                   /\ errs[Len(errs)][1] \in SourceErrors

\* install /u/x /u/f with XDG_BIN_HOME=b: /u/x is reported missing, then
\* the directory is refused at /u/f.
InstallRefusedAtSecond ==
    /\ cmd.name = "install" /\ cmd.args = << UsrX, UsrF >> /\ pc = "done"
    /\ env.xdg = BinName /\ env.wd = Root
    /\ errs = << <<"file not found", UsrX>>, <<"not absolute", BinName>> >>
    /\ exitCode = 1 /\ fs = fs0
\* The running executable is taken to be the program at /u/f.
SelfPath == UsrF

\* Entry n of the registry resolved, through all its links, to the running
\* executable when the directory was scanned.
ResolvesToSelf(n) ==
    /\ Stat(fs0, env.wd, Join(binDir, n)).err = "ok"
    /\ Stat(fs0, env.wd, Join(binDir, n)).path = SelfPath

\* The first such entry in scan order.
IsSelfName(n) ==
    \E i \in 1..Len(reg.names) :
        /\ reg.names[i] = n /\ ResolvesToSelf(n)
        /\ \A j \in 1..i - 1 : ~ResolvesToSelf(reg.names[j])

RECURSIVE ProgramNames(_, _)
ProgramNames(fl, i) ==
    IF i > Len(fl) THEN <<>>
    ELSE (IF skip(fl[i]) THEN <<>> ELSE << fl[i].name >>) \o ProgramNames(fl, i + 1)

\* A symlink of the scan whose chain of links does not resolve: it dangles
\* or it loops.
BrokenAlias(file) ==
    ~skip(file) /\ isSymlink(file) /\ StatAtScan(file).err # "ok"

ListsOrRemoves == cmd.name \in {"list", "remove"} /\ pc \in {"perform", "return", "done"}

ProgramPaths ==
    { p \in Children(fs0, binDir) : fs0[p].kind # "dir" /\ ~HasPrefix(Base(p), Dot) }

Occurrences(names, n) == Cardinality({ k \in 1..Len(names) : names[k] = n })

\* C26: once newLsRmCommand has built it, names is the sorted list without
\* duplicates of the programs of the directory, nameToAbsTarget has those
\* names for keys and pathToAbsTarget their paths, with equal values; a
\* name is in the list of target t, once, exactly when its entry is a
\* symlink and t is its target, and the other entries have the empty target.
RegistryMatchesDirectory ==
    cmd.name \in {"list", "remove"} /\ pc \in {"perform", "return"} =>
        /\ { reg.names[k] : k \in 1..Len(reg.names) } = { Base(p) : p \in ProgramPaths }
        /\ \A i, j \in 1..Len(reg.names) : i < j => StrLess(reg.names[i], reg.names[j])
        /\ DOMAIN reg.nameToAbsTarget = { Base(p) : p \in ProgramPaths }
        /\ DOMAIN reg.pathToAbsTarget = ProgramPaths
        /\ \A p \in ProgramPaths :
               /\ reg.pathToAbsTarget[p] = reg.nameToAbsTarget[Base(p)]
               /\ fs0[p].kind # "link" => reg.nameToAbsTarget[Base(p)] = Empty
               /\ \A t \in DOMAIN reg.absTargetToNames :
                      Occurrences(reg.absTargetToNames[t], Base(p))
                          = IF fs0[p].kind = "link" /\ reg.nameToAbsTarget[Base(p)] = t
                            THEN 1 ELSE 0
               /\ fs0[p].kind = "link" =>
                      reg.nameToAbsTarget[Base(p)] \in DOMAIN reg.absTargetToNames
        /\ \A t \in DOMAIN reg.absTargetToNames :
               \A k \in 1..Len(reg.absTargetToNames[t]) :
                   Join(binDir, reg.absTargetToNames[t][k]) \in ProgramPaths

\* The registry of a directory where a and c are links to /u/f, one
\* relative and one absolute, beside a hidden entry.
TwoNamesOfOneTarget ==
    /\ cmd.name = "list" /\ pc = "return"
    /\ BinA \in DOMAIN fs0 /\ fs0[BinA] = LinkNode(RelUsrF)
    /\ BinC \in DOMAIN fs0 /\ fs0[BinC] = LinkNode(UsrF)
    /\ BinHidden \in DOMAIN fs0
    /\ reg.names = << NameA, NameC >>
    /\ reg.absTargetToNames = (UsrF :> << NameA, NameC >>)
\* C27: whenever perform is about to match an argument, direct-only and
\* target-only are not both set.
SomeRuleEnabled ==
    pc = "perform" => ~(cmd.directOnly /\ cmd.targetOnly)
\* C28: a step of install in symlink or copy mode leaves the source as it
\* was: the entry the argument names and the file it resolves to are there
\* afterwards, unchanged.
SourceUntouched ==
    [][/\ pc = "install" /\ idx' = idx + 1
       /\ ~cmd.move
       /\ SourceEntry.err = "ok"
       => /\ SourceEntry.path \in DOMAIN fs'
          /\ fs'[SourceEntry.path] = fs[SourceEntry.path]
          /\ SourceNow.err = "ok" =>
                 /\ SourceNow.path \in DOMAIN fs'
                 /\ fs'[SourceNow.path] = fs[SourceNow.path]]_vars
\* The entries of the managed directory in file system f.
ManagedEntries(f) == [p \in Children(f, BinDir) |-> f[p]]

\* C29: a step of install that records an error leaves the managed
\* directory as it was, in every mode, with and without force.
FailedInstallChangesNothing ==
    [][/\ pc = "install" /\ idx' = idx + 1
       /\ errs' # errs
       => ManagedEntries(fs') = ManagedEntries(fs)]_vars

\* The arguments of the process that parseOptions reads as flags: those
\* before the first "--" that begin with a dash and are longer than it.
FlagsEnd ==
    IF \E p \in 1..Len(raw) : raw[p] = DashDash
    THEN CHOOSE p \in 1..Len(raw) : raw[p] = DashDash /\ \A q \in 1..(p - 1) : raw[q] # DashDash
    ELSE Len(raw) + 1

IsFlag(p) == p < FlagsEnd /\ Len(raw[p]) >= 2 /\ Head(raw[p]) = "-"

IsPositional(p) == p \in 1..Len(raw) /\ p # FlagsEnd /\ ~IsFlag(p)

\* Where the rename flag stands among the arguments of the process.
RenamePositions == {p \in 1..Len(raw) : IsFlag(p) /\ raw[p] \in {ShortRename, LongRename}}

RenamePosition == CHOOSE p \in RenamePositions : TRUE

\* The flag is followed by an argument that is no flag.
RenameGiven == RenamePosition < Len(raw) /\ ~IsFlag(RenamePosition + 1)
                   /\ RenamePosition + 1 # FlagsEnd

\* The index, from 0, that the argument after the flag has in opts.args when
\* install reads the flag: the positionals before it, less the command name.
RenameIndex == Cardinality({p \in 1..RenamePosition : IsPositional(p)}) - 1

\* options.string runs on a command line that has the rename flag once.
ReadsRename == pc = "rename" /\ pc' # "rename" /\ Cardinality(RenamePositions) = 1

OtherFlagsFollow(before, after, index) ==
    /\ DOMAIN after = DOMAIN before
    /\ \A k \in DOMAIN before :
           /\ before[k] # index
           /\ after[k] = IF before[k] > index THEN before[k] - 1 ELSE before[k]

\* C30: for the string flag given once, as -r NAME or --rename NAME,
\* anywhere among the arguments, options.string returns the argument that
\* immediately followed the flag and removes exactly that argument from the
\* positionals, the others staying in order and every other flag's index
\* pointing at the same argument; when the flag is last or followed by
\* another flag it records a "missing argument" error and removes nothing.
StringTakesFollowingArgument ==
    [][ReadsRename =>
          /\ ~opts'.panicked
          /\ IF RenameGiven
             THEN /\ value' = raw[RenamePosition + 1]
                  /\ opts'.args = SubSeq(opts.args, 1, RenameIndex)
                                      \o SubSeq(opts.args, RenameIndex + 2, Len(opts.args))
                  /\ OtherFlagsFollow(Delete(opts.short, "r"), opts'.short, RenameIndex)
                  /\ OtherFlagsFollow(Delete(opts.long, RenameFlag), opts'.long,
                                      RenameIndex)
                  /\ opts'.errors = opts.errors
             ELSE /\ opts'.errors = Append(opts.errors,
                                           <<raw[RenamePosition], "missing argument">>)
                  /\ opts'.args = opts.args
                  /\ opts'.short = Delete(opts.short, "r")
                  /\ opts'.long = Delete(opts.long, RenameFlag)]_vars

====
